---- MODULE Spec2Model ----
(***************************************************************************)
(* Model of the BTC_XGBOOST forward-testing service:                       *)
(*   - the trade ledger (src/src/tracker.py) and the loops of eel_app.py   *)
(*     that mutate it (strategy_worker, audit_worker, contract_worker,     *)
(*     price_worker, background_worker);                                   *)
(*   - the candle aggregator (src/src/aggregator.py), the bar store        *)
(*     (src/src/database.py) and the two venue ingestors.                  *)
(* Probabilities, quotes and pnl are in thousandths (0.65 is 650).         *)
(* Wall-clock time of the trade side is counted in five-minute windows,    *)
(* wall-clock time of the bar side in minutes.                             *)
(* An optional value (Python None / SQL NULL) is the empty sequence <<>>,  *)
(* a present value v is <<v>>.                                             *)
(***************************************************************************)
EXTENDS Integers, Sequences, FiniteSets, TLC

VARIABLES
    \* ---- trade side ----
    trades,              \* rows of table forward_trades
    log_call,            \* the log_trade call of the latest evaluation: <<row, returned>>
    active_contract,     \* eel_app.active_contract
    latest_predictions,  \* eel_app.latest_predictions
    ENABLE_SIM_TRADING,  \* eel_app.ENABLE_SIM_TRADING
    win,                 \* wall clock: index of the current five-minute window
    market_res,          \* settlement market of each window: "open" or its outcome
    s_pc, s_avg, s_up, s_down, s_open, s_todo,   \* strategy_worker position and locals
    a_pc, a_now, a_todo,                         \* audit_worker position and locals
    p_pc, p_market,                              \* price_worker position and local
    c_pc,                                        \* contract_worker position
    b_pc,                \* background_worker position in its prediction loop
    n_in,                \* number of inputs (contracts, predictions, quotes) so far
    \* ---- bar side ----
    now,                 \* wall clock in minutes
    buffer,              \* CandleAggregator.buffer of each venue's ingestor
    store,               \* the ohlcv tables: rows per (venue, interval)
    last_ts,             \* HyperLiquidIngestor.last_ts
    ingestion_running,   \* eel_app.ingestion_running: history fetched, streams started
    dataset,             \* the result of the latest build_mtf_dataset call
    flushed,             \* log of the aggregator's insert_candle calls
    run,                 \* the base bars each aggregator was given, in order
    nev                  \* number of bar-side events so far

tradeVars == <<trades, log_call, active_contract, latest_predictions,
               ENABLE_SIM_TRADING, win, market_res,
               s_pc, s_avg, s_up, s_down, s_open, s_todo,
               a_pc, a_now, a_todo, p_pc, p_market, c_pc, b_pc, n_in>>
barVars   == <<now, buffer, store, last_ts, ingestion_running, dataset, flushed, run,
               nev>>
vars      == <<tradeVars, barVars>>

(***************************************************************************)
(* Bounds                                                                  *)
(***************************************************************************)
MaxWin == 1          \* the wall clock of the trade side stops at this window
MaxInputs == 3       \* inputs the trade side receives (contracts, predictions, quotes)

(***************************************************************************)
(* Program constants                                                       *)
(***************************************************************************)
ENTRY_UP   == 650    \* avg_prob > 0.65
ENTRY_DOWN == 350    \* avg_prob < 0.35
MIN_EDGE   == 50     \* edge > 0.05
ONE        == 1000   \* 1.0 in thousandths

None == <<>>
Some(v) == <<v>>

Sources == {"binance", "hyperliquid"}

\* Prediction values the models publish and quote pairs the market shows.
ProbSet  == {300, 720}
QuoteSet == {<<600, 400>>, <<700, 300>>}
\* Outcome labels the resolution source returns.
Labels   == {"Up", "Down"}
Epochs   == 0..(MaxWin + 2)
\* Which of the three looked-up markets the market API returns: the first k
\* look-ups may find nothing (every result of the discovery arises this way).
FoundSets == {{1, 2, 3}, {2, 3}, {3}, {}}

(***************************************************************************)
(* TradeTracker (src/src/tracker.py)                                       *)
(***************************************************************************)
\* The row INSERTed by log_trade: status defaults to 'OPEN', result_side and
\* pnl to NULL.
NewRow(market_id, slug, end_date, side, prob, entry_price, profit_target) ==
    [id |-> market_id, market_slug |-> slug, end_date |-> end_date,
     prediction_side |-> side, prediction_prob |-> prob,
     entry_price |-> entry_price, profit_target |-> profit_target,
     status |-> "OPEN", result_side |-> "NULL", pnl |-> None]

\* id TEXT PRIMARY KEY: a row with the same id makes the INSERT fail.
HasId(T, market_id) == \E r \in T : r.id = market_id

\* Variant: log_trade written as INSERT OR REPLACE.
log_trade_replace(T, row) ==
    {r \in T : r.id # row.id} \cup {row}

\* Variant: log_trade written as an upsert of the entry fields
\* (ON CONFLICT(id) DO UPDATE), keeping status, result_side and pnl.
log_trade_upsert(T, row) ==
    IF HasId(T, row.id)
    THEN {IF r.id = row.id
             THEN [row EXCEPT !.status = r.status,
                              !.result_side = r.result_side, !.pnl = r.pnl]
             ELSE r : r \in T}
    ELSE T \cup {row}

\* Variant: log_trade on a table whose key is (id, prediction_side).
log_trade_sidekey(T, row) ==
    IF \E r \in T : r.id = row.id /\ r.prediction_side = row.prediction_side
    THEN T ELSE T \cup {row}

\* log_trade: INSERT; sqlite3.IntegrityError is caught and nothing is stored.
log_trade(T, row) ==
    IF HasId(T, row.id) THEN T ELSE T \cup {row}

\* log_trade returns market_id after the commit and None after IntegrityError.
log_trade_ret(T, row) ==
    IF HasId(T, row.id) THEN "None" ELSE "market_id"

\* get_open_trades: SELECT * FROM forward_trades WHERE status='OPEN'.
get_open_trades(T) == {r \in T : r.status = "OPEN"}

\* update_result: UPDATE ... SET status='CLOSED', result_side=?, pnl=? WHERE id=?
update_result(T, market_id, result_side, pnl) ==
    {IF r.id = market_id
        THEN [r EXCEPT !.status = "CLOSED", !.result_side = result_side,
                       !.pnl = Some(pnl)]
        ELSE r : r \in T}

\* Variant: close_trade written as an upsert, which adds a row for an id
\* that is not in the table.
close_trade_upsert(T, market_id, pnl, reason) ==
    IF HasId(T, market_id)
    THEN {IF r.id = market_id
             THEN [r EXCEPT !.status = "CLOSED", !.pnl = Some(pnl),
                            !.result_side = reason]
             ELSE r : r \in T}
    ELSE T \cup {[NewRow(market_id, market_id, 0, "UP", 0, None, None)
                     EXCEPT !.status = "CLOSED", !.pnl = Some(pnl),
                            !.result_side = reason]}

\* Variant: close_trade written without the status column
\* (UPDATE ... SET pnl=?, result_side=? WHERE id=?).
close_trade_nostatus(T, market_id, pnl, reason) ==
    {IF r.id = market_id
        THEN [r EXCEPT !.pnl = Some(pnl), !.result_side = reason]
        ELSE r : r \in T}

\* close_trade: UPDATE ... SET status='CLOSED', pnl=?, result_side=? WHERE id=?
close_trade(T, market_id, pnl, reason) ==
    {IF r.id = market_id
        THEN [r EXCEPT !.status = "CLOSED", !.pnl = Some(pnl),
                       !.result_side = reason]
        ELSE r : r \in T}


(***************************************************************************)
(* PolymarketClient (src/src/polymarket.py)                                *)
(***************************************************************************)
\* The windows find_next_btc_5m_market looks up, in order:
\* [current_epoch, current_epoch + 300, current_epoch + 600].
epochs_to_check(w) == <<w, w + 1, w + 2>>

\* Variant: the look-up loop without the test of the closed flag.
find_next_btc_5m_market_anyfound(w, res, found, q) ==
    LET ok(i) == /\ i \in found
                 /\ epochs_to_check(w)[i] \in DOMAIN res
        hits  == {i \in 1..3 : ok(i)}
    IN IF hits = {} THEN None
       ELSE LET i == CHOOSE j \in hits : \A k \in hits : j <= k
            IN Some([slug |-> epochs_to_check(w)[i], outcomePrices |-> q])

\* find_next_btc_5m_market: the first looked-up window whose market was
\* returned by get_market_by_slug (its position is in found) and has closed = False; else None.
\* A fresh market carries the quotes q the market API reports.
find_next_btc_5m_market(w, res, found, q) ==
    LET ok(i) == /\ i \in found
                 /\ epochs_to_check(w)[i] \in DOMAIN res
                 /\ res[epochs_to_check(w)[i]] = "open"
        hits  == {i \in 1..3 : ok(i)}
    IN IF hits = {} THEN None
       ELSE LET i == CHOOSE j \in hits : \A k \in hits : j <= k
            IN Some([slug |-> epochs_to_check(w)[i], outcomePrices |-> q])

\* get_market_resolution: the winning outcome of a closed market, else None.
get_market_resolution(res, condition_id) ==
    IF res[condition_id] = "open" THEN None ELSE Some(res[condition_id])

\* enrich_market_with_prices: sets market['outcomePrices'] to the live prices
\* and returns the market.
enrich_market_with_prices(market, new_prices) ==
    [market EXCEPT !.outcomePrices = new_prices]

(***************************************************************************)
(* Initial state of the trade side: eel_app module globals and a fresh     *)
(* trades.db.                                                              *)
(***************************************************************************)
TradeInit ==
    /\ trades = {}
    /\ log_call = <<>>
    /\ active_contract = None
    /\ latest_predictions = [v \in Sources |-> None]
    /\ ENABLE_SIM_TRADING = TRUE
    /\ win = 0
    /\ market_res = [e \in Epochs |-> "open"]
    /\ s_pc = "idle" /\ s_avg = 0 /\ s_up = 0 /\ s_down = 0
    /\ s_open = {} /\ s_todo = {}
    /\ a_pc = "init" /\ a_now = 0 /\ a_todo = {}
    /\ p_pc = "idle" /\ p_market = None
    /\ c_pc = "init"
    /\ b_pc = "binance"
    /\ n_in = 0
    /\ now = 0
    /\ buffer = [v \in Sources |-> [tf \in {3, 5, 15} |-> None]]
    /\ store = [v \in Sources |-> [i \in {1, 3, 5, 15} |-> {}]]
    /\ last_ts = None
    /\ ingestion_running = FALSE
    /\ dataset = None
    /\ flushed = <<>>
    /\ run = [v \in Sources |-> <<>>]
    /\ nev = 0

stratVars  == <<s_pc, s_avg, s_up, s_down, s_open, s_todo>>
auditVars  == <<a_pc, a_now, a_todo>>
priceVars  == <<p_pc, p_market>>
ledgerVars == <<trades, log_call>>
sharedVars == <<active_contract, latest_predictions, ENABLE_SIM_TRADING>>
envVars    == <<win, market_res>>

\* One more input is consumed from the input budget.
Input == n_in < MaxInputs /\ n_in' = n_in + 1

(***************************************************************************)
(* Environment: wall clock, settlement markets, model output, controls     *)
(***************************************************************************)
\* A five-minute window ends.
TickWin ==
    /\ win < MaxWin
    /\ win' = win + 1
    /\ UNCHANGED <<market_res, n_in, ledgerVars, sharedVars, stratVars,
                   auditVars, priceVars, c_pc, b_pc, barVars>>

\* The market of an ended window closes with an outcome.
MarketResolve(e, label) ==
    /\ e < win
    /\ market_res[e] = "open"
    /\ market_res' = [market_res EXCEPT ![e] = label]
    /\ UNCHANGED <<win, n_in, ledgerVars, sharedVars, stratVars, auditVars,
                   priceVars, c_pc, b_pc, barVars>>

\* background_worker, prediction loop: the BINANCE block, then the HYPERLIQUID
\* block.  pred is what predict_latest returned; a falsy result (or a raised
\* error) leaves the published prediction as it is.
SetPrediction(v, pred) ==
    /\ b_pc = v
    /\ latest_predictions' = IF pred # None
                             THEN [latest_predictions EXCEPT ![v] = pred]
                             ELSE latest_predictions
    /\ b_pc' = IF v = "binance" THEN "hyperliquid" ELSE "binance"
    /\ IF v = "binance" THEN Input ELSE n_in' = n_in
    /\ UNCHANGED <<active_contract, ENABLE_SIM_TRADING, envVars, ledgerVars,
                   stratVars, auditVars, priceVars, c_pc, barVars>>

\* update_controls: ENABLE_SIM_TRADING = data.get('sim', True).
update_controls(sim) ==
    /\ ENABLE_SIM_TRADING' = sim
    /\ Input
    /\ UNCHANGED <<active_contract, latest_predictions, envVars, ledgerVars,
                   stratVars, auditVars, priceVars, c_pc, b_pc, barVars>>

(***************************************************************************)
(* contract_worker and price_worker (src/eel_app.py)                       *)
(***************************************************************************)
\* contract_worker, initial fetch: active_contract = new_c when new_c.
ContractInit(found, q) ==
    /\ c_pc = "init"
    /\ LET new_c == find_next_btc_5m_market(win, market_res, found, q)
       IN active_contract' = IF new_c # None THEN new_c ELSE active_contract
    /\ c_pc' = "poll"
    /\ Input
    /\ UNCHANGED <<latest_predictions, ENABLE_SIM_TRADING, envVars,
                   ledgerVars, stratVars, auditVars, priceVars, b_pc, barVars>>

\* contract_worker, poll: replace only when the slug differs.
ContractPoll(found, q) ==
    /\ c_pc = "poll"
    /\ LET new_c == find_next_btc_5m_market(win, market_res, found, q)
           current_slug == IF active_contract # None
                           THEN Some(active_contract[1].slug) ELSE None
       IN active_contract' =
            IF new_c # None /\ Some(new_c[1].slug) # current_slug
            THEN new_c ELSE active_contract
    /\ IF active_contract' # active_contract THEN Input ELSE n_in' = n_in
    /\ UNCHANGED <<latest_predictions, ENABLE_SIM_TRADING, envVars,
                   ledgerVars, stratVars, auditVars, priceVars, c_pc, b_pc,
                   barVars>>

\* price_worker reads the global and starts fetching quotes for it.
PriceRead ==
    /\ p_pc = "idle"
    /\ active_contract # None
    /\ p_market' = active_contract
    /\ p_pc' = "fetch"
    /\ UNCHANGED <<sharedVars, envVars, n_in, ledgerVars, stratVars,
                   auditVars, c_pc, b_pc, barVars>>

\* price_worker: active_contract = polymarket.enrich_market_with_prices(...).
PriceWrite(q) ==
    /\ p_pc = "fetch"
    /\ active_contract' = Some(enrich_market_with_prices(p_market[1], q))
    /\ p_pc' = "idle"
    /\ p_market' = None
    /\ Input
    /\ UNCHANGED <<latest_predictions, ENABLE_SIM_TRADING, envVars,
                   ledgerVars, stratVars, auditVars, c_pc, b_pc, barVars>>

(***************************************************************************)
(* strategy_worker (src/eel_app.py)                                        *)
(***************************************************************************)
othersOfStrategy == <<latest_predictions, ENABLE_SIM_TRADING, envVars, n_in,
                      auditVars, priceVars, c_pc, b_pc, barVars>>

\* Variant: the evaluation without the test of ENABLE_SIM_TRADING.
StrategyRead_nosim ==
    /\ s_pc = "idle"
    /\ IF /\ \A v \in Sources : latest_predictions[v] # None
          /\ active_contract # None
          /\ Len(active_contract[1].outcomePrices) >= 2
       THEN /\ s_avg' = (latest_predictions["binance"][1]
                         + latest_predictions["hyperliquid"][1]) \div 2
            /\ s_up' = active_contract[1].outcomePrices[1]
            /\ s_down' = active_contract[1].outcomePrices[2]
            /\ s_pc' = "snap"
            /\ UNCHANGED <<s_open, s_todo>>
       ELSE UNCHANGED stratVars
    /\ log_call' = <<>>
    /\ UNCHANGED <<trades, active_contract, othersOfStrategy>>

\* 1. GET DATA: the guards that skip the evaluation, then the average
\* probability and the two quotes.
StrategyRead ==
    /\ s_pc = "idle"
    /\ IF /\ ENABLE_SIM_TRADING
          /\ \A v \in Sources : latest_predictions[v] # None
          /\ active_contract # None
          /\ Len(active_contract[1].outcomePrices) >= 2
       THEN /\ s_avg' = (latest_predictions["binance"][1]
                         + latest_predictions["hyperliquid"][1]) \div 2
            /\ s_up' = active_contract[1].outcomePrices[1]
            /\ s_down' = active_contract[1].outcomePrices[2]
            /\ s_pc' = "snap"
            /\ UNCHANGED <<s_open, s_todo>>
       ELSE UNCHANGED stratVars
    /\ log_call' = <<>>
    /\ UNCHANGED <<trades, active_contract, othersOfStrategy>>

\* 2. open_trades = tracker.get_open_trades()
StrategySnapshot ==
    /\ s_pc = "snap"
    /\ s_open' = get_open_trades(trades)
    /\ s_todo' = get_open_trades(trades)
    /\ s_pc' = "manage"
    /\ UNCHANGED <<s_avg, s_up, s_down>>
    /\ UNCHANGED <<trades, log_call, active_contract, othersOfStrategy>>

\* Stop-loss condition: the model confidence is lost.
sl_triggered(side, avg_prob) ==
    \/ side = "UP" /\ avg_prob < ENTRY_UP
    \/ side = "DOWN" /\ avg_prob > ENTRY_DOWN

\* Take-profit condition: tp_price and current_price >= tp_price.
tp_triggered(tp_price, current_price) ==
    /\ tp_price # None
    /\ tp_price[1] # 0
    /\ current_price >= tp_price[1]

\* Variant: the loop body with take-profit checked before stop-loss.
ManageTrade_tpfirst(T, trade, contract, avg_prob, price_up, price_down) ==
    LET current_price == IF trade.prediction_side = "UP"
                         THEN price_up ELSE price_down
    IN IF trade.market_slug # contract.slug THEN T
       ELSE IF tp_triggered(trade.profit_target, current_price)
            THEN close_trade(T, trade.id, current_price - trade.entry_price[1],
                             "TP_HIT")
       ELSE IF sl_triggered(trade.prediction_side, avg_prob)
            THEN close_trade(T, trade.id, current_price - trade.entry_price[1],
                             "SL_ODDS_DROP")
       ELSE T

\* Variant: the loop body with a take-profit booked at the target.
ManageTrade_attarget(T, trade, contract, avg_prob, price_up, price_down) ==
    LET current_price == IF trade.prediction_side = "UP"
                         THEN price_up ELSE price_down
    IN IF trade.market_slug # contract.slug THEN T
       ELSE IF sl_triggered(trade.prediction_side, avg_prob)
            THEN close_trade(T, trade.id, current_price - trade.entry_price[1],
                             "SL_ODDS_DROP")
       ELSE IF tp_triggered(trade.profit_target, current_price)
            THEN close_trade(T, trade.id,
                             trade.profit_target[1] - trade.entry_price[1],
                             "TP_HIT")
       ELSE T

\* Variant: the loop body pricing every trade at the up quote.
ManageTrade_priceup(T, trade, contract, avg_prob, price_up, price_down) ==
    LET current_price == price_up
    IN IF trade.market_slug # contract.slug THEN T
       ELSE IF sl_triggered(trade.prediction_side, avg_prob)
            THEN close_trade(T, trade.id, current_price - trade.entry_price[1],
                             "SL_ODDS_DROP")
       ELSE IF tp_triggered(trade.profit_target, current_price)
            THEN close_trade(T, trade.id, current_price - trade.entry_price[1],
                             "TP_HIT")
       ELSE T

\* Variant: the loop body without the test of the trade's contract.
ManageTrade_anycontract(T, trade, contract, avg_prob, price_up, price_down) ==
    LET current_price == IF trade.prediction_side = "UP"
                         THEN price_up ELSE price_down
    IN IF sl_triggered(trade.prediction_side, avg_prob)
       THEN close_trade(T, trade.id, current_price - trade.entry_price[1],
                        "SL_ODDS_DROP")
       ELSE IF tp_triggered(trade.profit_target, current_price)
            THEN close_trade(T, trade.id, current_price - trade.entry_price[1],
                             "TP_HIT")
       ELSE T

\* The ledger after the body of "for trade in open_trades" ran for one trade.
ManageTrade(T, trade, contract, avg_prob, price_up, price_down) ==
    LET current_price == IF trade.prediction_side = "UP"
                         THEN price_up ELSE price_down
    IN IF trade.market_slug # contract.slug THEN T
       ELSE IF sl_triggered(trade.prediction_side, avg_prob)
            THEN close_trade(T, trade.id, current_price - trade.entry_price[1],
                             "SL_ODDS_DROP")
       ELSE IF tp_triggered(trade.profit_target, current_price)
            THEN close_trade(T, trade.id, current_price - trade.entry_price[1],
                             "TP_HIT")
       ELSE T

\* 2. MANAGE OPEN TRADES: one iteration of the loop over the snapshot.  A
\* missing active contract raises in active_contract.get and the evaluation
\* is abandoned by the except clause of the loop.
StrategyManage ==
    /\ s_pc = "manage"
    /\ s_todo # {}
    /\ \E trade \in s_todo :
         IF active_contract = None
         THEN /\ s_pc' = "idle"
              /\ s_todo' = {} /\ s_open' = {}
              /\ s_avg' = 0 /\ s_up' = 0 /\ s_down' = 0
              /\ UNCHANGED trades
         ELSE /\ trades' = ManageTrade(trades, trade, active_contract[1],
                                       s_avg, s_up, s_down)
              /\ s_todo' = s_todo \ {trade}
              /\ UNCHANGED <<s_pc, s_avg, s_up, s_down, s_open>>
    /\ UNCHANGED <<log_call, active_contract, othersOfStrategy>>

\* Variant: the entry signal without the minimum-edge test.
signal_side_noedge(avg_prob, price_up, price_down) ==
    IF avg_prob > ENTRY_UP THEN "UP"
    ELSE IF avg_prob < ENTRY_DOWN THEN "DOWN"
    ELSE "NONE"

\* The side the entry logic signals ("NONE" when there is no signal).
signal_side(avg_prob, price_up, price_down) ==
    IF avg_prob > ENTRY_UP
    THEN (IF avg_prob - price_up > MIN_EDGE THEN "UP" ELSE "NONE")
    ELSE IF avg_prob < ENTRY_DOWN
    THEN (IF (ONE - avg_prob) - price_down > MIN_EDGE THEN "DOWN" ELSE "NONE")
    ELSE "NONE"

\* Variant: the entry row with the target at entry + edge.
EntryRow_fulledge(slug, epoch, avg_prob, price_up, price_down) ==
    LET side         == signal_side(avg_prob, price_up, price_down)
        market_price == IF side = "UP" THEN price_up ELSE price_down
        edge_val     == IF side = "UP" THEN avg_prob - price_up
                        ELSE (ONE - avg_prob) - price_down
    IN NewRow(slug, slug, epoch + 1, side, avg_prob,
              Some(market_price), Some(market_price + edge_val))

\* The row strategy_worker passes to tracker.log_trade.
EntryRow(slug, epoch, avg_prob, price_up, price_down) ==
    LET side         == signal_side(avg_prob, price_up, price_down)
        market_price == IF side = "UP" THEN price_up ELSE price_down
        edge_val     == IF side = "UP" THEN avg_prob - price_up
                        ELSE (ONE - avg_prob) - price_down
        target       == market_price + (edge_val \div 2)
    IN NewRow(slug, slug, epoch + 1, side, avg_prob,
              Some(market_price), Some(target))

\* 3. CHECK FOR NEW ENTRY, after the loop over the snapshot.
StrategyEntry ==
    /\ s_pc = "manage"
    /\ s_todo = {}
    /\ IF active_contract = None
       THEN UNCHANGED <<trades, log_call>>
       ELSE LET slug == active_contract[1].slug
                existing_trade == \E t \in s_open : t.market_slug = slug
                row == EntryRow(slug, win, s_avg, s_up, s_down)
            IN IF ~existing_trade /\ signal_side(s_avg, s_up, s_down) # "NONE"
               THEN /\ trades' = log_trade(trades, row)
                    /\ log_call' = <<row, log_trade_ret(trades, row)>>
               ELSE UNCHANGED <<trades, log_call>>
    /\ s_pc' = "idle"
    /\ s_open' = {}
    /\ s_avg' = 0 /\ s_up' = 0 /\ s_down' = 0
    /\ UNCHANGED s_todo
    /\ UNCHANGED <<active_contract, othersOfStrategy>>

(***************************************************************************)
(* audit_worker (src/eel_app.py) and TradeAuditor (src/src/auditor.py)     *)
(***************************************************************************)
othersOfAudit == <<log_call, latest_predictions, ENABLE_SIM_TRADING, envVars,
                   n_in, stratVars, priceVars, c_pc, b_pc, barVars>>

\* audit_worker, initial fetch:
\* active_contract = polymarket.find_next_btc_5m_market().
AuditInit(found, q) ==
    /\ a_pc = "init"
    /\ active_contract' = find_next_btc_5m_market(win, market_res, found, q)
    /\ a_pc' = "idle"
    /\ Input
    /\ UNCHANGED <<a_now, a_todo>>
    /\ UNCHANGED <<ledgerVars, latest_predictions, ENABLE_SIM_TRADING,
                   envVars, stratVars, priceVars, c_pc, b_pc, barVars>>

\* resolve_expired_trades up to the loop: returns when there is no open
\* trade, else takes the OPEN rows and the current time.
AuditBegin ==
    /\ a_pc = "idle"
    /\ get_open_trades(trades) # {}
    /\ a_todo' = get_open_trades(trades)
    /\ a_now' = win
    /\ a_pc' = "audit"
    /\ UNCHANGED <<trades, active_contract, othersOfAudit>>

\* Variant: the cost basis always implied by the probability.
cost_basis_prob(row) ==
    IF row.prediction_side = "UP" THEN row.prediction_prob
    ELSE ONE - row.prediction_prob

\* Cost basis: entry_price when recorded and positive, else the probability.
cost_basis(row) ==
    IF row.entry_price # None /\ row.entry_price[1] > 0
    THEN row.entry_price[1]
    ELSE IF row.prediction_side = "UP" THEN row.prediction_prob
         ELSE ONE - row.prediction_prob

\* won: resolution "Yes" for an UP trade, "No" for a DOWN trade.
won(resolution, side) ==
    \/ resolution = "Yes" /\ side = "UP"
    \/ resolution = "No" /\ side = "DOWN"

\* pnl = payout - cost
audit_pnl(row, resolution) ==
    (IF won(resolution, row.prediction_side) THEN ONE ELSE 0) - cost_basis(row)

\* The ledger after the loop body of resolve_expired_trades ran for one row.
\* lookup tells whether get_market_by_slug returned the market.
ResolveRow(T, row, t_now, res, lookup) ==
    IF ~(t_now >= row.end_date) THEN T
    ELSE IF ~lookup THEN T
    ELSE LET resolution == get_market_resolution(res, row.id)
         IN IF resolution = None THEN T
            ELSE update_result(T, row.id, resolution[1],
                               audit_pnl(row, resolution[1]))

\* One iteration of "for _, row in open_df.iterrows()".
AuditStep ==
    /\ a_pc = "audit"
    /\ a_todo # {}
    /\ \E row \in a_todo, lookup \in BOOLEAN :
         /\ trades' = ResolveRow(trades, row, a_now, market_res, lookup)
         /\ a_todo' = a_todo \ {row}
    /\ UNCHANGED <<a_pc, a_now>>
    /\ UNCHANGED <<active_contract, othersOfAudit>>

\* Variant: the audit loop ends after its first tick.
AuditEnd_once ==
    /\ a_pc = "audit"
    /\ a_todo = {}
    /\ a_pc' = "stopped"
    /\ a_now' = 0
    /\ UNCHANGED a_todo
    /\ UNCHANGED <<trades, active_contract, othersOfAudit>>

\* resolve_expired_trades returns; the next audit tick follows.
AuditEnd ==
    /\ a_pc = "audit"
    /\ a_todo = {}
    /\ a_pc' = "idle"
    /\ a_now' = 0
    /\ UNCHANGED a_todo
    /\ UNCHANGED <<trades, active_contract, othersOfAudit>>


(***************************************************************************)
(* The trade side as a specification                                       *)
(***************************************************************************)
TradeNext ==
    \/ TickWin
    \/ \E e \in Epochs, label \in Labels : MarketResolve(e, label)
    \/ \E v \in Sources, pred \in {None} \cup {Some(p) : p \in ProbSet} :
          SetPrediction(v, pred)
    \/ \E found \in FoundSets, q \in QuoteSet : ContractInit(found, q)
    \/ \E found \in FoundSets, q \in QuoteSet : ContractPoll(found, q)
    \/ PriceRead
    \/ \E q \in QuoteSet : PriceWrite(q)
    \/ StrategyRead
    \/ StrategySnapshot
    \/ StrategyManage
    \/ StrategyEntry
    \/ \E found \in FoundSets, q \in QuoteSet : AuditInit(found, q)
    \/ AuditBegin
    \/ AuditStep
    \/ AuditEnd

SpecTrade == TradeInit /\ [][TradeNext]_vars


(***************************************************************************)
(* DatabaseManager (src/src/database.py)                                   *)
(***************************************************************************)
\* The tables init_db creates: one per source and interval (in minutes).
Intervals == {1, 3, 5, 15}

\* A candle as the aggregator holds it and as a row of an ohlcv table.
Candle(t, o, h, l, c, v) ==
    [timestamp |-> t, open |-> o, high |-> h, low |-> l, close |-> c,
     volume |-> v]

\* Variant: insert_candle as a plain INSERT into a table without a key.
insert_candle_append(S, source, interval, candle) ==
    [S EXCEPT ![source][interval] = @ \cup {candle}]

\* insert_candle: INSERT OR REPLACE INTO {source}_ohlcv_{interval}; timestamp
\* is the PRIMARY KEY, so the row of that timestamp is replaced.
insert_candle(S, source, interval, candle) ==
    [S EXCEPT ![source][interval] =
        {r \in @ : r.timestamp # candle.timestamp} \cup {candle}]

(***************************************************************************)
(* CandleAggregator (src/src/aggregator.py)                                *)
(***************************************************************************)
targets == <<3, 5, 15>>
Targets == {targets[i] : i \in DOMAIN targets}

Max2(a, b) == IF a >= b THEN a ELSE b
Min2(a, b) == IF a <= b THEN a ELSE b

\* interval_ms = timeframe_minutes * 60 * 1000
interval_ms(timeframe_minutes) == timeframe_minutes * 60 * 1000

\* bucket_start = (current_ts // interval_ms) * interval_ms
bucket_start(timeframe_minutes, current_ts) ==
    (current_ts \div interval_ms(timeframe_minutes))
        * interval_ms(timeframe_minutes)

\* _create_new_bucket
create_new_bucket(start_ts, candle) ==
    Candle(start_ts, candle.open, candle.high, candle.low, candle.close,
           candle.volume)

\* Variant: the same-bucket branch taking the high of the new bar alone.
same_bucket_lasthigh(start_ts, last_candle, candle_1m) ==
    Candle(start_ts, last_candle.open,
           candle_1m.high,
           Min2(last_candle.low, candle_1m.low),
           candle_1m.close,
           last_candle.volume + candle_1m.volume)

\* Variant: the same-bucket branch keeping the close of the bucket.
same_bucket_firstclose(start_ts, last_candle, candle_1m) ==
    Candle(start_ts, last_candle.open,
           Max2(last_candle.high, candle_1m.high),
           Min2(last_candle.low, candle_1m.low),
           last_candle.close,
           last_candle.volume + candle_1m.volume)

\* The "same bucket" branch of _update_timeframe_buffer.
same_bucket(start_ts, last_candle, candle_1m) ==
    Candle(start_ts, last_candle.open,
           Max2(last_candle.high, candle_1m.high),
           Min2(last_candle.low, candle_1m.low),
           candle_1m.close,
           last_candle.volume + candle_1m.volume)

\* _update_timeframe_buffer for one timeframe: buffered is self.buffer.get(tf)
\* (None or <<[start, candle]>>).  The result is the new buffer entry and the
\* candle flushed to the database (None when nothing is flushed).
update_timeframe_buffer(timeframe_minutes, buffered, candle_1m) ==
    LET start == bucket_start(timeframe_minutes, candle_1m.timestamp)
    IN IF buffered # None
       THEN IF start = buffered[1].start
            THEN [entry |-> Some([start |-> start,
                                  candle |-> same_bucket(start,
                                      buffered[1].candle, candle_1m)]),
                  flush |-> None]
            ELSE [entry |-> Some([start |-> start,
                                  candle |-> create_new_bucket(start,
                                                               candle_1m)]),
                  flush |-> Some(buffered[1].candle)]
       ELSE [entry |-> Some([start |-> start,
                             candle |-> create_new_bucket(start, candle_1m)]),
             flush |-> None]

\* process_1m_candle, the buffer: every target timeframe is updated.
process_buffer(buf, candle_1m) ==
    [tf \in Targets |-> update_timeframe_buffer(tf, buf[tf], candle_1m).entry]

\* Variant: the aggregator writes to the tables of one source whatever its
\* own source is.
RECURSIVE process_store_binance(_, _, _, _, _)
process_store_binance(S, source, buf, candle_1m, i) ==
    IF i > Len(targets) THEN S
    ELSE LET tf == targets[i]
             u  == update_timeframe_buffer(tf, buf[tf], candle_1m)
             S1 == IF u.flush # None
                   THEN insert_candle(S, "binance", tf, u.flush[1]) ELSE S
         IN process_store_binance(S1, source, buf, candle_1m, i + 1)

\* process_1m_candle, the database: the flushed candle of every target
\* timeframe is inserted, in the order of self.targets.
RECURSIVE process_store(_, _, _, _, _)
process_store(S, source, buf, candle_1m, i) ==
    IF i > Len(targets) THEN S
    ELSE LET tf == targets[i]
             u  == update_timeframe_buffer(tf, buf[tf], candle_1m)
             S1 == IF u.flush # None
                   THEN insert_candle(S, source, tf, u.flush[1]) ELSE S
         IN process_store(S1, source, buf, candle_1m, i + 1)

\* The insert_candle calls process_1m_candle makes, as log entries.
RECURSIVE process_flushes(_, _, _, _)
process_flushes(source, buf, candle_1m, i) ==
    IF i > Len(targets) THEN <<>>
    ELSE LET tf == targets[i]
             u  == update_timeframe_buffer(tf, buf[tf], candle_1m)
         IN (IF u.flush # None
             THEN <<[source |-> source, interval |-> tf,
                     timestamp |-> u.flush[1].timestamp]>>
             ELSE <<>>) \o process_flushes(source, buf, candle_1m, i + 1)

(***************************************************************************)
(* The aggregator alone, fed any sequence of base bars                     *)
(***************************************************************************)
MaxEvents == 4       \* base bars given to process_1m_candle

\* The base bars of the aggregation scenario of the design notes (closes
\* 100, 101, 99), as <<open, high, low, close, volume>>.
BarShapes == {<<100, 100, 100, 100, 5>>, <<100, 101, 100, 101, 7>>,
              <<101, 101, 99, 99, 4>>}
\* The minutes the base bars are stamped with: a quarter-hour boundary
\* (12:00 of the scenario), the three minutes after it, and the next one.
AggMinutes == {15, 16, 17, 18, 30}

BaseBars ==
    {Candle(m * 60 * 1000, b[1], b[2], b[3], b[4], b[5]) :
        m \in AggMinutes, b \in BarShapes}

\* The state of eel_app right after main() built its services: nothing has
\* run on the trade side.
TradeIdle ==
    /\ trades = {}
    /\ log_call = <<>>
    /\ active_contract = None
    /\ latest_predictions = [v \in Sources |-> None]
    /\ ENABLE_SIM_TRADING = TRUE
    /\ win = 0
    /\ market_res = [e \in Epochs |-> "open"]
    /\ s_pc = "idle" /\ s_avg = 0 /\ s_up = 0 /\ s_down = 0
    /\ s_open = {} /\ s_todo = {}
    /\ a_pc = "init" /\ a_now = 0 /\ a_todo = {}
    /\ p_pc = "idle" /\ p_market = None
    /\ c_pc = "init"
    /\ b_pc = "binance"
    /\ n_in = 0

\* A new CandleAggregator on empty tables.
AggInit ==
    /\ TradeIdle
    /\ now = 0
    /\ buffer = [v \in Sources |-> [tf \in Targets |-> None]]
    /\ store = [v \in Sources |-> [i \in Intervals |-> {}]]
    /\ last_ts = None
    /\ ingestion_running = FALSE
    /\ dataset = None
    /\ flushed = <<>>
    /\ run = [v \in Sources |-> <<>>]
    /\ nev = 0

\* aggregator.process_1m_candle(candle) on the aggregator of one source.
\* process_1m_candle(candle) of the aggregator of one source, on tables S.
process_1m_candle(S, source, candle) ==
    /\ buffer' = [buffer EXCEPT ![source] = process_buffer(@, candle)]
    /\ store' = process_store(S, source, buffer[source], candle, 1)
    /\ flushed' = flushed \o process_flushes(source, buffer[source], candle, 1)
    /\ run' = [run EXCEPT ![source] = Append(@, candle)]

\* One base bar is given to the aggregator.
ProcessBar(source, candle) ==
    /\ nev < MaxEvents
    /\ nev' = nev + 1
    /\ process_1m_candle(store, source, candle)
    /\ UNCHANGED <<now, last_ts, ingestion_running, dataset, tradeVars>>

AggNext == \E candle \in BaseBars : ProcessBar("binance", candle)

SpecAgg == AggInit /\ [][AggNext]_vars

(***************************************************************************)
(* The ingestion service: history fetch, then the two venue streams        *)
(* (background_worker of eel_app.py, BinanceIngestor, HyperLiquidIngestor) *)
(***************************************************************************)
MaxNow == 30         \* the last minute the wall clock reaches
HistLimit == 2       \* closed bars a history response holds per interval

StartMinute == MaxNow - 2

\* The bars of a history response, as <<open, high, low, close, volume>>.
HistoryShapes == {<<100, 101, 99, 99, 16>>}

Ms(minute) == minute * 60 * 1000

Shaped(t, b) == Candle(t, b[1], b[2], b[3], b[4], b[5])

\* The klines a venue returns for one interval at minute t_now: the last
\* HistLimit closed bars, oldest first, then the bar in progress when the
\* venue includes it.
HistoryKlines(interval, t_now, partial, b) ==
    LET cur == bucket_start(interval, Ms(t_now))
    IN [k \in 1..HistLimit |->
           Shaped(cur - (HistLimit + 1 - k) * interval_ms(interval), b)]
       \o (IF partial THEN <<Shaped(cur, b)>> ELSE <<>>)

\* fetch_history of either ingestor: every returned kline is inserted.
RECURSIVE fetch_history(_, _, _, _)
fetch_history(S, source, interval, klines) ==
    IF klines = <<>> THEN S
    ELSE fetch_history(insert_candle(S, source, interval, Head(klines)),
                       source, interval, Tail(klines))

intervals == <<1, 3, 5, 15>>

\* background_worker, step 1: for each interval, the history of Binance and
\* then of HyperLiquid.
RECURSIVE fetch_all_history(_, _, _, _, _)
fetch_all_history(S, i, t_now, partial, b) ==
    IF i > Len(intervals) THEN S
    ELSE LET klines == HistoryKlines(intervals[i], t_now, partial, b)
             S1 == fetch_history(S, "binance", intervals[i], klines)
             S2 == fetch_history(S1, "hyperliquid", intervals[i], klines)
         IN fetch_all_history(S2, i + 1, t_now, partial, b)

\* The wall clock passes a minute boundary.
TickMinute ==
    /\ now < MaxNow
    /\ now' = now + 1
    /\ UNCHANGED <<buffer, store, last_ts, ingestion_running, flushed, run,
                   nev, dataset, tradeVars>>

\* background_worker up to the prediction loop: history, then the streams.
BackgroundStart(partial, b) ==
    /\ ~ingestion_running
    /\ store' = fetch_all_history(store, 1, now, partial, b)
    /\ ingestion_running' = TRUE
    /\ UNCHANGED <<now, buffer, last_ts, flushed, run, nev, dataset, tradeVars>>

\* The timestamp of the last bar a source's aggregator was given.
LastSeen(source) ==
    IF run[source] = <<>> THEN 0
    ELSE run[source][Len(run[source])].timestamp

\* BinanceIngestor._on_message for a 1m kline event: x is the closed flag.
\* The venue sends updates of the minute in progress (x false) and, right
\* after a minute ended, its final kline (x true); events come in time order.
BinanceOnMessage(x, b) ==
    /\ ingestion_running
    /\ nev < MaxEvents
    /\ LastSeen("binance") <= Ms(IF x THEN now - 1 ELSE now)
    /\ nev' = nev + 1
    /\ LET kline == Shaped(Ms(IF x THEN now - 1 ELSE now), b)
       IN process_1m_candle(IF x THEN insert_candle(store, "binance", 1, kline)
                                 ELSE store,
                            "binance", kline)
    /\ UNCHANGED <<now, last_ts, ingestion_running, dataset, tradeVars>>

\* HyperLiquidIngestor._on_message for a 1m candle event: an update of the
\* minute in progress; the venue sends no closed flag.
HyperLiquidOnMessage(b) ==
    /\ ingestion_running
    /\ nev < MaxEvents
    /\ nev' = nev + 1
    /\ LET kline == Shaped(Ms(now), b)
           current_ts == kline.timestamp
       IN /\ IF last_ts # None /\ current_ts > last_ts[1]
             THEN last_ts' = last_ts
             ELSE last_ts' = Some(current_ts)
          /\ process_1m_candle(insert_candle(store, "hyperliquid", 1, kline),
                               "hyperliquid", kline)
    /\ UNCHANGED <<now, ingestion_running, dataset, tradeVars>>

\* The service is stopped and started again (main() or
\* start_ingestion_service): new ingestors with new aggregators on the same
\* database; the history is fetched again before the streams restart.
Restart ==
    /\ ingestion_running
    /\ nev < MaxEvents
    /\ nev' = nev + 1
    /\ buffer' = [v \in Sources |-> [tf \in Targets |-> None]]
    /\ last_ts' = None
    /\ run' = [v \in Sources |-> <<>>]
    /\ ingestion_running' = FALSE
    /\ UNCHANGED <<now, store, flushed, dataset, tradeVars>>

\* The service starts at StartMinute with empty tables.
BarsInit ==
    /\ TradeIdle
    /\ now = StartMinute
    /\ buffer = [v \in Sources |-> [tf \in Targets |-> None]]
    /\ store = [v \in Sources |-> [i \in Intervals |-> {}]]
    /\ last_ts = None
    /\ ingestion_running = FALSE
    /\ dataset = None
    /\ flushed = <<>>
    /\ run = [v \in Sources |-> <<>>]
    /\ nev = 0

BarsNext ==
    \/ \E b \in BarShapes : HyperLiquidOnMessage(b)
    \/ \E x \in BOOLEAN, b \in BarShapes : BinanceOnMessage(x, b)
    \/ \E partial \in BOOLEAN, b \in HistoryShapes :
          BackgroundStart(partial, b)
    \/ TickMinute
    \/ Restart

SpecBars == BarsInit /\ [][BarsNext]_vars

(***************************************************************************)
(* DatasetBuilder.build_mtf_dataset (src/Model_XGBoost/dataset.py)         *)
(***************************************************************************)
limit == 50000       \* build_mtf_dataset(limit=50000)
period == 14         \* indicators/rsi.py: RSI_14 is NaN on the first 14 rows

\* get_candles: the limit rows of the table with the greatest timestamps.
get_candles(S, source, interval, lim) ==
    {r \in S[source][interval] :
        Cardinality({q \in S[source][interval] :
                        q.timestamp > r.timestamp}) < lim}

\* df.sort_values('timestamp'): the rows as a sequence, oldest first.
RECURSIVE sort_values(_)
sort_values(T) ==
    IF T = {} THEN <<>>
    ELSE LET first == CHOOSE r \in T : \A q \in T : r.timestamp <= q.timestamp
         IN <<first>> \o sort_values(T \ {first})

\* The aggregate of a non-empty run of rows: first open, max high, min low,
\* last close, summed volume (the agg of _resample_from_1m).
RECURSIVE resample_agg(_, _)
resample_agg(t, rows) ==
    IF Len(rows) = 1
    THEN Candle(t, rows[1].open, rows[1].high, rows[1].low, rows[1].close,
                rows[1].volume)
    ELSE LET rest == resample_agg(t, Tail(rows))
         IN Candle(t, rows[1].open, Max2(rows[1].high, rest.high),
                   Min2(rows[1].low, rest.low), rest.close,
                   rows[1].volume + rest.volume)

\* _resample_from_1m: the 1m rows binned by floor to the target timeframe
\* (closed left, label left); empty bins are dropped.
resample_from_1m(rows_1m, tf) ==
    {resample_agg(b, sort_values({r \in rows_1m :
                                     bucket_start(tf, r.timestamp) = b})) :
        b \in {bucket_start(tf, r.timestamp) : r \in rows_1m}}

\* apply_all and add_normalized_features on one frame: each row keeps its bar
\* and gets feature columns, which are NaN on the first rows of the frame
\* (RSI_14 on the first 14 rows, n_open .. n_close on the first row).
with_features(T) ==
    LET df == sort_values(T)
    IN [k \in 1..Len(df) |-> [timestamp |-> df[k].timestamp,
                              bar |-> df[k],
                              nan |-> k <= period]]

\* Variant: for the 3m frame the merge attaches the row before the last one
\* of the shifted frame that is at or before t, when there is one.
merge_asof_stale(t, df_tf, tf) ==
    LET ok == {k \in DOMAIN df_tf : df_tf[k].timestamp + interval_ms(tf) <= t}
        last == CHOOSE k \in ok : \A j \in ok :
                    df_tf[j].timestamp <= df_tf[k].timestamp
        older == ok \ {last}
    IN IF ok = {} THEN None
       ELSE IF older = {} \/ tf # 3 THEN Some(df_tf[last])
       ELSE Some(df_tf[CHOOSE k \in older : \A j \in older :
                          df_tf[j].timestamp <= df_tf[k].timestamp])

\* Variant: merge_asof on the unshifted index of the frame.
merge_asof_noshift(t, df_tf, tf) ==
    LET ok == {k \in DOMAIN df_tf : df_tf[k].timestamp <= t}
    IN IF ok = {} THEN None
       ELSE Some(df_tf[CHOOSE k \in ok : \A j \in ok :
                          df_tf[j].timestamp <= df_tf[k].timestamp])

\* pd.merge_asof(base, shifted_tf, direction='backward') for one base row:
\* the frame's index is shifted by +tf minutes and the row of the greatest
\* shifted index <= t is attached; None (NaN) when there is none.
merge_asof(t, df_tf, tf) ==
    LET ok == {k \in DOMAIN df_tf : df_tf[k].timestamp + interval_ms(tf) <= t}
    IN IF ok = {} THEN None
       ELSE Some(df_tf[CHOOSE k \in ok : \A j \in ok :
                          df_tf[j].timestamp <= df_tf[k].timestamp])

\* The frame of one higher timeframe: the stored rows, or the rows resampled
\* from the 1m rows when the table is empty.
frame_of(S, source, tf, rows_1m) ==
    IF get_candles(S, source, tf, limit) # {}
    THEN get_candles(S, source, tf, limit)
    ELSE resample_from_1m(rows_1m, tf)

\* Variant: no cell counts as NaN (the rows are kept instead of dropped).
is_nan_never(cell) == FALSE

\* A cell of the merged frame is NaN when no row was attached or when the
\* attached row's features are NaN.
is_nan(cell) == cell = None \/ cell[1].nan

\* build_mtf_dataset(source): "raised" when the 1m table is empty (ValueError)
\* or when a resampled frame cannot be merged; otherwise the merged rows that
\* survive dropna().  resample_ok says whether a frame resampled from 1m
\* (indexed by integer milliseconds) survives the index shift of the merge.
build_mtf_dataset(S, source, resample_ok) ==
    LET rows_1m == get_candles(S, source, 1, limit)
        loaded == {tf \in Targets : frame_of(S, source, tf, rows_1m) # {}}
        resampled == {tf \in loaded : get_candles(S, source, tf, limit) = {}}
        base_df == with_features(rows_1m)
        dfs == [tf \in loaded |->
                   with_features(frame_of(S, source, tf, rows_1m))]
        merged == {[timestamp |-> base_df[k].timestamp,
                    base |-> Some(base_df[k]),
                    tfs |-> [tf \in loaded |->
                               merge_asof(base_df[k].timestamp, dfs[tf], tf)]] :
                   k \in DOMAIN base_df}
    IN IF rows_1m = {} \/ (resampled # {} /\ ~resample_ok)
       THEN [status |-> "raised", rows |-> {}]
       ELSE [status |-> "ok",
             rows |-> {row \in merged :
                          /\ ~is_nan(row.base)
                          /\ \A tf \in loaded : ~is_nan(row.tfs[tf])}]

(***************************************************************************)
(* The dataset builder on stored tables                                    *)
(***************************************************************************)
\* The minute the recent rows of the tables start at: a quarter-hour
\* boundary with room for period + 1 older buckets of every interval.
Anchor == (period + 2) * 15

\* The stored bar of interval i that starts at minute m.
DataBar(i, m) == Candle(Ms(m), 100, 100 + i, 99, 100 + (m % 2), i)

\* The n buckets of interval i before Anchor.
OlderRows(i, n) == {DataBar(i, Anchor - i * k) : k \in 1..n}

\* The minutes of the rows a table may hold from Anchor on: for the derived
\* intervals the bucket that starts at Anchor.
RecentMinutes(i) == IF i = 1 THEN {Anchor, Anchor + 1} ELSE {Anchor}

\* How many older rows a table may hold: none, too few for the indicators,
\* just enough, for the 3m table one more than that (two closed bars with
\* defined features), and for the 1m table a history longer than that of
\* the derived tables.
OlderCounts(i) ==
    IF i = 1 THEN {0, period, period + 1, 4 * (period + 1)}
    ELSE IF i = 3 THEN {0, period, period + 1, period + 2}
    ELSE {0, period, period + 1}

\* The tables of interval i the builder is run on.
TablesOf(i) ==
    {OlderRows(i, n) \cup {DataBar(i, m) : m \in recent} :
        n \in OlderCounts(i), recent \in SUBSET RecentMinutes(i)}

\* The hyperliquid tables hold some history; nothing has been built.
DataInit ==
    /\ TradeIdle
    /\ now = Anchor + 4
    /\ buffer = [v \in Sources |-> [tf \in Targets |-> None]]
    /\ store \in {[v \in Sources |->
                     IF v = "hyperliquid"
                     THEN (1 :> t1 @@ 3 :> t3 @@ 5 :> t5 @@ 15 :> t15)
                     ELSE [i \in Intervals |-> {}]] :
                  t1 \in TablesOf(1), t3 \in TablesOf(3),
                  t5 \in TablesOf(5), t15 \in TablesOf(15)}
    /\ last_ts = None
    /\ ingestion_running = FALSE
    /\ dataset = None
    /\ flushed = <<>>
    /\ run = [v \in Sources |-> <<>>]
    /\ nev = 0

\* DatasetBuilder.build_mtf_dataset(source) is called.
BuildDataset(source, resample_ok) ==
    /\ dataset = None
    /\ dataset' = Some([source |-> source,
                        result |-> build_mtf_dataset(store, source,
                                                     resample_ok)])
    /\ UNCHANGED <<now, buffer, store, last_ts, ingestion_running, flushed,
                   run, nev, tradeVars>>

DataNext ==
    \E source \in Sources, resample_ok \in BOOLEAN :
        BuildDataset(source, resample_ok)

SpecData == DataInit /\ [][DataNext]_vars

(***************************************************************************)
(* start_ingestion_service (src/main.py) on Binance against a venue whose  *)
(* one-minute bars are known: history fetch, then the 1m kline stream, in  *)
(* which every minute is reported while it is open and once when closed.   *)
(***************************************************************************)
MaxStream == 5       \* kline events and restarts of the scenario

\* The venue's bar of minute m, as <<open, high, low, close, volume>>: each
\* bar opens at the close of the bar before it.
VenueShape(m) ==
    IF m % 3 = 0 THEN <<100, 102, 100, 101, 5>>
    ELSE IF m % 3 = 1 THEN <<101, 101, 99, 99, 7>>
    ELSE <<99, 100, 99, 100, 4>>

VenueBar(m) == Shaped(Ms(m), VenueShape(m))

\* The venue's bar of a cadence over the minutes first .. last.
VenueAggregate(first, last) ==
    resample_agg(Ms(first), [k \in 1..(last - first + 1) |->
                                VenueBar(first + k - 1)])

\* The reference aggregation of the bucket of cadence tf starting at
\* timestamp ts.
Reference(tf, ts) ==
    VenueAggregate(ts \div interval_ms(1), ts \div interval_ms(1) + tf - 1)

\* The klines the venue returns for one interval at minute t_now: the last
\* HistLimit closed bars, oldest first, then the bar in progress when the
\* response includes it.
VenueKlines(interval, t_now, partial) ==
    LET cur == (t_now \div interval) * interval
    IN [k \in 1..HistLimit |->
           VenueAggregate(cur - (HistLimit + 1 - k) * interval,
                          cur - (HistLimit - k) * interval - 1)]
       \o (IF partial THEN <<VenueAggregate(cur, t_now)>> ELSE <<>>)

\* for interval in HISTORY_INTERVALS: ingestor.fetch_history(...).
RECURSIVE fetch_venue_history(_, _, _, _)
fetch_venue_history(S, i, t_now, partial) ==
    IF i > Len(intervals) THEN S
    ELSE fetch_venue_history(
             fetch_history(S, "binance", intervals[i],
                           VenueKlines(intervals[i], t_now, partial)),
             i + 1, t_now, partial)

\* start_ingestion_service: history for all intervals, then the stream.
StreamStart(partial) ==
    /\ ~ingestion_running
    /\ store' = fetch_venue_history(store, 1, now, partial)
    /\ ingestion_running' = TRUE
    /\ UNCHANGED <<now, buffer, last_ts, flushed, run, nev, dataset, tradeVars>>

\* BinanceIngestor._on_message for a 1m kline event of the venue: an update
\* of the minute in progress (x false) or the final kline of the minute that
\* just ended (x true).  Events come in time order; the final kline of a
\* minute is sent once, to a stream that was subscribed during that minute.
StreamOnMessage(x) ==
    /\ ingestion_running
    /\ nev < MaxStream
    /\ LastSeen("binance") <= Ms(IF x THEN now - 1 ELSE now)
    /\ x => /\ run["binance"] # <<>>
            /\ VenueBar(now - 1) \notin store["binance"][1]
    /\ nev' = nev + 1
    /\ LET kline == VenueBar(IF x THEN now - 1 ELSE now)
       IN process_1m_candle(IF x THEN insert_candle(store, "binance", 1, kline)
                                 ELSE store,
                            "binance", kline)
    /\ UNCHANGED <<now, last_ts, ingestion_running, dataset, tradeVars>>

\* The wall clock passes a minute boundary; the running stream has reported
\* the minute that ends.
StreamTick ==
    /\ ingestion_running
    /\ LastSeen("binance") = Ms(now)
    /\ now < MaxNow
    /\ now' = now + 1
    /\ UNCHANGED <<buffer, store, last_ts, ingestion_running, flushed, run,
                   nev, dataset, tradeVars>>

\* The service is started at a quarter-hour boundary on empty tables.
StreamInit ==
    /\ TradeIdle
    /\ now = 15
    /\ buffer = [v \in Sources |-> [tf \in Targets |-> None]]
    /\ store = [v \in Sources |-> [i \in Intervals |-> {}]]
    /\ last_ts = None
    /\ ingestion_running = FALSE
    /\ dataset = None
    /\ flushed = <<>>
    /\ run = [v \in Sources |-> <<>>]
    /\ nev = 0

StreamNext ==
    \/ \E partial \in BOOLEAN : StreamStart(partial)
    \/ \E x \in BOOLEAN : StreamOnMessage(x)
    \/ StreamTick
    \/ Restart

SpecStream == StreamInit /\ [][StreamNext]_vars

(***************************************************************************)
(* The strategy loop holding a position: strategy_worker, price_worker,    *)
(* contract_worker and the prediction loop of eel_app.py, started from a   *)
(* state in which the strategy has entered a trade on the active contract. *)
(***************************************************************************)
\* The averaged probabilities the strategy can read.
AvgSet == {(a + b) \div 2 : a \in ProbSet, b \in ProbSet}

\* The rows the entry logic writes for the market of window 0.
EnteredRows ==
    {EntryRow(0, 0, avg, q[1], q[2]) :
        <<avg, q>> \in {x \in AvgSet \X QuoteSet :
                           signal_side(x[1], x[2][1], x[2][2]) # "NONE"}}

\* The workers are past their initial fetch, both models have published a
\* prediction and the ledger holds one OPEN trade on the active contract.
ExitInit ==
    /\ trades \in {{r} : r \in EnteredRows}
    /\ log_call = <<>>
    /\ active_contract \in {Some([slug |-> 0, outcomePrices |-> q]) :
                               q \in QuoteSet}
    /\ latest_predictions \in [Sources -> {Some(p) : p \in ProbSet}]
    /\ ENABLE_SIM_TRADING = TRUE
    /\ win = 0
    /\ market_res = [e \in Epochs |-> "open"]
    /\ s_pc = "idle" /\ s_avg = 0 /\ s_up = 0 /\ s_down = 0
    /\ s_open = {} /\ s_todo = {}
    /\ a_pc = "idle" /\ a_now = 0 /\ a_todo = {}
    /\ p_pc = "idle" /\ p_market = None
    /\ c_pc = "poll"
    /\ b_pc = "binance"
    /\ n_in = 0
    /\ now = 0
    /\ buffer = [v \in Sources |-> [tf \in Targets |-> None]]
    /\ store = [v \in Sources |-> [i \in Intervals |-> {}]]
    /\ last_ts = None
    /\ ingestion_running = FALSE
    /\ dataset = None
    /\ flushed = <<>>
    /\ run = [v \in Sources |-> <<>>]
    /\ nev = 0

ExitNext ==
    \/ \E v \in Sources, pred \in {None} \cup {Some(p) : p \in ProbSet} :
          SetPrediction(v, pred)
    \/ \E found \in FoundSets, q \in QuoteSet : ContractPoll(found, q)
    \/ PriceRead
    \/ \E q \in QuoteSet : PriceWrite(q)
    \/ StrategyRead
    \/ StrategySnapshot
    \/ StrategyManage
    \/ StrategyEntry

SpecExit == ExitInit /\ [][ExitNext]_vars

(***************************************************************************)
(* The strategy loop's guards: strategy_worker after a start of eel_app.py *)
(* on a trades.db that may hold an OPEN trade of an earlier run, with      *)
(* markets whose outcomePrices may hold fewer than two quotes.             *)
(***************************************************************************)
\* The outcomePrices a market may carry: a pair, a single quote or none
\* (active_contract.get('outcomePrices', [])).
GuardQuotes == QuoteSet \cup {<<>>, <<600>>}

\* The module globals right after the workers started (no prediction, no
\* active contract or the first one), simulated trading on or off, and the
\* ledger of the earlier run: empty or one OPEN trade on the market of
\* window 0.
GuardInit ==
    /\ trades \in {{}} \cup {{r} : r \in EnteredRows}
    /\ log_call = <<>>
    /\ active_contract \in {None} \cup
                            {Some([slug |-> 0, outcomePrices |-> q]) :
                                q \in GuardQuotes}
    /\ latest_predictions = [v \in Sources |-> None]
    /\ ENABLE_SIM_TRADING \in BOOLEAN
    /\ win = 0
    /\ market_res = [e \in Epochs |-> "open"]
    /\ s_pc = "idle" /\ s_avg = 0 /\ s_up = 0 /\ s_down = 0
    /\ s_open = {} /\ s_todo = {}
    /\ a_pc = "idle" /\ a_now = 0 /\ a_todo = {}
    /\ p_pc = "idle" /\ p_market = None
    /\ c_pc = "poll"
    /\ b_pc = "binance"
    /\ n_in = 0
    /\ now = 0
    /\ buffer = [v \in Sources |-> [tf \in Targets |-> None]]
    /\ store = [v \in Sources |-> [i \in Intervals |-> {}]]
    /\ last_ts = None
    /\ ingestion_running = FALSE
    /\ dataset = None
    /\ flushed = <<>>
    /\ run = [v \in Sources |-> <<>>]
    /\ nev = 0

GuardNext ==
    \/ \E v \in Sources, pred \in {None} \cup {Some(p) : p \in ProbSet} :
          SetPrediction(v, pred)
    \/ \E sim \in BOOLEAN : update_controls(sim)
    \/ \E found \in FoundSets, q \in GuardQuotes : ContractPoll(found, q)
    \/ PriceRead
    \/ \E q \in GuardQuotes : PriceWrite(q)
    \/ StrategyRead
    \/ StrategySnapshot
    \/ StrategyManage
    \/ StrategyEntry

SpecGuards == GuardInit /\ [][GuardNext]_vars

(***************************************************************************)
(* One strategy evaluation against a switch of the active contract:        *)
(* strategy_worker, contract_worker, price_worker and the prediction loop  *)
(* of eel_app.py on markets that each have their own quotes.               *)
(***************************************************************************)
\* The quotes the market API and the order book report for the market of
\* window e.
QuoteOf(e) == IF e % 2 = 0 THEN <<600, 400>> ELSE <<700, 300>>

\* The quote of one side of the market of window e.
SideQuoteOf(e, side) == IF side = "UP" THEN QuoteOf(e)[1] ELSE QuoteOf(e)[2]

\* The workers are past their initial fetch, both models have published a
\* prediction, the active contract is the market of window 0 and the ledger
\* is empty or holds one OPEN trade entered on that market at its quotes.
SwitchInit ==
    /\ trades \in {{}} \cup
                  {{r} : r \in {x \in EnteredRows :
                                   x.entry_price =
                                       Some(SideQuoteOf(0, x.prediction_side))}}
    /\ log_call = <<>>
    /\ active_contract = Some([slug |-> 0, outcomePrices |-> QuoteOf(0)])
    /\ latest_predictions \in [Sources -> {Some(p) : p \in ProbSet}]
    /\ ENABLE_SIM_TRADING = TRUE
    /\ win = 0
    /\ market_res = [e \in Epochs |-> "open"]
    /\ s_pc = "idle" /\ s_avg = 0 /\ s_up = 0 /\ s_down = 0
    /\ s_open = {} /\ s_todo = {}
    /\ a_pc = "idle" /\ a_now = 0 /\ a_todo = {}
    /\ p_pc = "idle" /\ p_market = None
    /\ c_pc = "poll"
    /\ b_pc = "binance"
    /\ n_in = 0
    /\ now = 0
    /\ buffer = [v \in Sources |-> [tf \in Targets |-> None]]
    /\ store = [v \in Sources |-> [i \in Intervals |-> {}]]
    /\ last_ts = None
    /\ ingestion_running = FALSE
    /\ dataset = None
    /\ flushed = <<>>
    /\ run = [v \in Sources |-> <<>>]
    /\ nev = 0

\* contract_worker's poll; the market found carries its own quotes.
SwitchPoll(found) ==
    LET new_c == find_next_btc_5m_market(win, market_res, found, <<>>)
    IN ContractPoll(found, IF new_c = None THEN <<>>
                           ELSE QuoteOf(new_c[1].slug))

\* price_worker's write; the quotes fetched are those of the market read.
SwitchPriceWrite ==
    /\ p_market # None
    /\ PriceWrite(QuoteOf(p_market[1].slug))

SwitchNext ==
    \/ TickWin
    \/ \E v \in Sources, pred \in {None} \cup {Some(p) : p \in ProbSet} :
          SetPrediction(v, pred)
    \/ \E found \in FoundSets : SwitchPoll(found)
    \/ PriceRead
    \/ SwitchPriceWrite
    \/ StrategyRead
    \/ StrategySnapshot
    \/ StrategyManage
    \/ StrategyEntry

SpecSwitch == SwitchInit /\ [][SwitchNext]_vars

(***************************************************************************)
(* Contract discovery alone: PolymarketClient.find_next_btc_5m_market on   *)
(* any state of the markets of the windows it looks up.                    *)
(***************************************************************************)
\* The states a market can be in: open, or closed with an outcome.
MarketStates == {"open"} \cup Labels

\* A client at some window with the markets in any state; nothing was
\* looked up yet.
DiscoverInit ==
    /\ trades = {}
    /\ log_call = <<>>
    /\ active_contract = None
    /\ latest_predictions = [v \in Sources |-> None]
    /\ ENABLE_SIM_TRADING = TRUE
    /\ win \in 0..MaxWin
    /\ market_res \in [Epochs -> MarketStates]
    /\ s_pc = "idle" /\ s_avg = 0 /\ s_up = 0 /\ s_down = 0
    /\ s_open = {} /\ s_todo = {}
    /\ a_pc = "idle" /\ a_now = 0 /\ a_todo = {}
    /\ p_pc = "idle" /\ p_market = None
    /\ c_pc = "poll"
    /\ b_pc = "binance"
    /\ n_in = 0
    /\ now = 0
    /\ buffer = [v \in Sources |-> [tf \in Targets |-> None]]
    /\ store = [v \in Sources |-> [i \in Intervals |-> {}]]
    /\ last_ts = None
    /\ ingestion_running = FALSE
    /\ dataset = None
    /\ flushed = <<>>
    /\ run = [v \in Sources |-> <<>>]
    /\ nev = 0

\* find_next_btc_5m_market() is called; exists is the set of windows whose
\* market get_market_by_slug returns.  The call and its result are logged.
CallFindNext(exists, q) ==
    /\ Input
    /\ LET found == {i \in 1..3 : epochs_to_check(win)[i] \in exists}
       IN log_call' = <<exists,
                        find_next_btc_5m_market(win, market_res, found, q)>>
    /\ UNCHANGED <<trades, sharedVars, envVars, stratVars, auditVars,
                   priceVars, c_pc, b_pc, barVars>>

DiscoverNext ==
    \E exists \in SUBSET (0..(MaxWin + 2)), q \in QuoteSet :
        CallFindNext(exists, q)

SpecDiscover == DiscoverInit /\ [][DiscoverNext]_vars

(***************************************************************************)
(* The auditor on a ledger of expired trades: TradeAuditor                 *)
(* (src/src/auditor.py) against the resolution source                      *)
(* (PolymarketClient.get_market_resolution).                               *)
(***************************************************************************)
\* The outcome labels the resolution source names: 'UP' and 'DOWN' in its
\* documentation, "Yes" and "No" in its code comment.
UpOutcomes == {"UP", "Yes"}
DownOutcomes == {"DOWN", "No"}
ResolutionLabels == UpOutcomes \cup DownOutcomes

\* Entry prices a ledger row can hold: none (a row written before the column
\* existed, or by a caller that omits it), 0.0 (the quote fallback "0" of
\* enrich_market_with_prices) or a quote.
EntryPrices == {None, Some(0), Some(400), Some(600)}

\* OPEN rows on the market of window 0, which ends with that window.
AuditRows ==
    {NewRow(0, 0, 1, x[1], x[2], ep, None) :
        x \in {<<"UP", 720>>, <<"DOWN", 300>>}, ep \in EntryPrices}

\* The audit worker is past its initial fetch and the ledger holds one OPEN
\* trade.
AuditLedgerInit ==
    /\ trades \in {{r} : r \in AuditRows}
    /\ log_call = <<>>
    /\ active_contract = None
    /\ latest_predictions = [v \in Sources |-> None]
    /\ ENABLE_SIM_TRADING = TRUE
    /\ win = 0
    /\ market_res = [e \in Epochs |-> "open"]
    /\ s_pc = "idle" /\ s_avg = 0 /\ s_up = 0 /\ s_down = 0
    /\ s_open = {} /\ s_todo = {}
    /\ a_pc = "idle" /\ a_now = 0 /\ a_todo = {}
    /\ p_pc = "idle" /\ p_market = None
    /\ c_pc = "poll"
    /\ b_pc = "binance"
    /\ n_in = 0
    /\ now = 0
    /\ buffer = [v \in Sources |-> [tf \in Targets |-> None]]
    /\ store = [v \in Sources |-> [i \in Intervals |-> {}]]
    /\ last_ts = None
    /\ ingestion_running = FALSE
    /\ dataset = None
    /\ flushed = <<>>
    /\ run = [v \in Sources |-> <<>>]
    /\ nev = 0

AuditNext ==
    \/ TickWin
    \/ \E e \in Epochs, label \in ResolutionLabels : MarketResolve(e, label)
    \/ AuditBegin
    \/ AuditStep
    \/ AuditEnd

SpecAudit == AuditLedgerInit /\ [][AuditNext]_vars

\* An audit step in which the resolution source answers the market lookup.
SourceAnswers ==
    /\ a_pc = "audit"
    /\ \E row \in a_todo :
         /\ trades' = ResolveRow(trades, row, a_now, market_res, TRUE)
         /\ a_todo' = a_todo \ {row}
    /\ UNCHANGED <<a_pc, a_now>>
    /\ UNCHANGED <<active_contract, othersOfAudit>>

\* audit_worker runs forever (while True ... time.sleep(1)): every tick that
\* can start starts, every started tick runs to its end, and a source that
\* keeps being asked answers.
AuditFairness ==
    /\ WF_vars(AuditBegin)
    /\ WF_vars(AuditStep)
    /\ WF_vars(AuditEnd)
    /\ SF_vars(SourceAnswers)

SpecAuditLive == AuditLedgerInit /\ [][AuditNext]_vars /\ AuditFairness

(***************************************************************************)
(* The shared active contract as a Python object: contract_worker's poll   *)
(* publishes the dict find_next_btc_5m_market returns, price_worker passes *)
(* the published dict to enrich_market_with_prices, which assigns          *)
(* market['outcomePrices'] on that dict and returns it, and price_worker   *)
(* then assigns the returned dict to the global.  The field obj is the     *)
(* identity of the dict; two references with the same obj are one object.  *)
(***************************************************************************)
\* The dict of a market, as object k.
Object(market, k) ==
    [slug |-> market.slug, outcomePrices |-> market.outcomePrices, obj |-> k]

\* The workers are started and nothing is published yet.
ShareInit ==
    /\ trades = {}
    /\ log_call = <<>>
    /\ active_contract = None
    /\ latest_predictions = [v \in Sources |-> None]
    /\ ENABLE_SIM_TRADING = TRUE
    /\ win = 0
    /\ market_res = [e \in Epochs |-> "open"]
    /\ s_pc = "idle" /\ s_avg = 0 /\ s_up = 0 /\ s_down = 0
    /\ s_open = {} /\ s_todo = {}
    /\ a_pc = "idle" /\ a_now = 0 /\ a_todo = {}
    /\ p_pc = "idle" /\ p_market = None
    /\ c_pc = "poll"
    /\ b_pc = "binance"
    /\ n_in = 0
    /\ now = 0
    /\ buffer = [v \in Sources |-> [tf \in Targets |-> None]]
    /\ store = [v \in Sources |-> [i \in Intervals |-> {}]]
    /\ last_ts = None
    /\ ingestion_running = FALSE
    /\ dataset = None
    /\ flushed = <<>>
    /\ run = [v \in Sources |-> <<>>]
    /\ nev = 0

\* contract_worker, poll: a new dict is published when its slug differs from
\* the slug of the published one.
ShareDiscover(found, q) ==
    /\ c_pc = "poll"
    /\ LET new_c == find_next_btc_5m_market(win, market_res, found, q)
           current_slug == IF active_contract # None
                           THEN Some(active_contract[1].slug) ELSE None
       IN /\ new_c # None
          /\ Some(new_c[1].slug) # current_slug
          /\ active_contract' = Some(Object(new_c[1], n_in + 1))
    /\ Input
    /\ UNCHANGED <<latest_predictions, ENABLE_SIM_TRADING, envVars,
                   ledgerVars, stratVars, auditVars, priceVars, c_pc, b_pc,
                   barVars>>

\* price_worker: enrich_market_with_prices(active_contract) is called; the
\* parameter market refers to the published dict.
SharePriceRead ==
    /\ p_pc = "idle"
    /\ active_contract # None
    /\ p_market' = active_contract
    /\ p_pc' = "fetch"
    /\ UNCHANGED <<sharedVars, envVars, n_in, ledgerVars, stratVars,
                   auditVars, c_pc, b_pc, barVars>>

\* enrich_market_with_prices: market['outcomePrices'] = new_prices.  Every
\* reference to that dict shows the new field.
SharePriceMutate(q) ==
    /\ p_pc = "fetch"
    /\ p_market' = Some(enrich_market_with_prices(p_market[1], q))
    /\ active_contract' =
          IF active_contract # None /\ active_contract[1].obj = p_market[1].obj
          THEN Some(enrich_market_with_prices(active_contract[1], q))
          ELSE active_contract
    /\ p_pc' = "assign"
    /\ UNCHANGED <<latest_predictions, ENABLE_SIM_TRADING, envVars, n_in,
                   ledgerVars, stratVars, auditVars, c_pc, b_pc, barVars>>

\* price_worker: active_contract = (the dict enrich_market_with_prices
\* returned).
SharePriceAssign ==
    /\ p_pc = "assign"
    /\ active_contract' = p_market
    /\ p_pc' = "idle"
    /\ p_market' = None
    /\ UNCHANGED <<latest_predictions, ENABLE_SIM_TRADING, envVars, n_in,
                   ledgerVars, stratVars, auditVars, c_pc, b_pc, barVars>>

ShareNext ==
    \/ TickWin
    \/ \E v \in Sources, pred \in {None} \cup {Some(p) : p \in ProbSet} :
          SetPrediction(v, pred)
    \/ \E found \in FoundSets, q \in QuoteSet : ShareDiscover(found, q)
    \/ SharePriceRead
    \/ \E q \in QuoteSet : SharePriceMutate(q)
    \/ SharePriceAssign

SpecShare == ShareInit /\ [][ShareNext]_vars

(***************************************************************************)
(* Failures inside the polling loops of eel_app.py.  Each worker is        *)
(*   while True: try: <iteration> except Exception as e: print(...); sleep *)
(* A raised exception moves the worker to the except clause that encloses  *)
(* the raising statement; a worker whose try did not enclose it would end. *)
(***************************************************************************)
Workers == {"strategy", "price", "contract", "audit", "prediction"}

\* Variant: strategy_worker with its try statement around the loop.
TryInLoop_nostrategy(w) == w \in Workers \ {"strategy"}

\* The try statement of worker w is inside its while True loop.
TryInLoop(w) == w \in Workers

\* Where worker w is after an exception raised in its iteration.
OnFailure(w) == IF TryInLoop(w) THEN "except" ELSE "dead"

\* An exception is raised in strategy_worker's iteration after its reads.
StrategyFail ==
    /\ s_pc \in {"snap", "manage"}
    /\ s_pc' = OnFailure("strategy")
    /\ s_todo' = {} /\ s_open' = {}
    /\ s_avg' = 0 /\ s_up' = 0 /\ s_down' = 0
    /\ Input
    /\ UNCHANGED <<trades, log_call, active_contract, latest_predictions,
                   ENABLE_SIM_TRADING, envVars, auditVars, priceVars, c_pc,
                   b_pc, barVars>>

\* except Exception: print(...); time.sleep(0.5); the next tick follows.
StrategyResume ==
    /\ s_pc = "except"
    /\ s_pc' = "idle"
    /\ UNCHANGED <<s_avg, s_up, s_down, s_open, s_todo>>
    /\ UNCHANGED <<trades, log_call, active_contract, othersOfStrategy>>

\* An exception is raised in price_worker's iteration.
PriceFail ==
    /\ p_pc = "fetch"
    /\ p_pc' = OnFailure("price")
    /\ p_market' = None
    /\ Input
    /\ UNCHANGED <<sharedVars, envVars, ledgerVars, stratVars, auditVars,
                   c_pc, b_pc, barVars>>

\* except Exception: print(...); time.sleep(1); the next tick follows.
PriceResume ==
    /\ p_pc = "except"
    /\ p_pc' = "idle"
    /\ UNCHANGED <<p_market, sharedVars, envVars, n_in, ledgerVars,
                   stratVars, auditVars, c_pc, b_pc, barVars>>

\* An exception is raised in contract_worker: in the initial fetch (the
\* poll loop follows) or in a poll.
ContractFail ==
    /\ c_pc \in {"init", "poll"}
    /\ c_pc' = IF c_pc = "init" THEN "poll" ELSE OnFailure("contract")
    /\ Input
    /\ UNCHANGED <<sharedVars, envVars, ledgerVars, stratVars, auditVars,
                   priceVars, b_pc, barVars>>

\* except Exception: print(...); time.sleep(5); the next poll follows.
ContractResume ==
    /\ c_pc = "except"
    /\ c_pc' = "poll"
    /\ UNCHANGED <<sharedVars, envVars, n_in, ledgerVars, stratVars,
                   auditVars, priceVars, b_pc, barVars>>

\* An exception is raised in audit_worker: in the initial fetch (the audit
\* loop follows) or inside resolve_expired_trades.
AuditFail ==
    /\ a_pc \in {"init", "audit"}
    /\ a_pc' = IF a_pc = "init" THEN "idle" ELSE OnFailure("audit")
    /\ a_todo' = {}
    /\ a_now' = 0
    /\ Input
    /\ UNCHANGED <<sharedVars, envVars, ledgerVars, stratVars, priceVars,
                   c_pc, b_pc, barVars>>

\* except Exception: print(...); time.sleep(1); the next tick follows.
AuditResume ==
    /\ a_pc = "except"
    /\ a_pc' = "idle"
    /\ UNCHANGED <<a_now, a_todo, sharedVars, envVars, n_in, ledgerVars,
                   stratVars, priceVars, c_pc, b_pc, barVars>>

\* The workers of eel_app.py with failures.  A failure of predict_latest is
\* SetPrediction with no result.
LoopsNext ==
    \/ TickWin
    \/ \E e \in Epochs, label \in Labels : MarketResolve(e, label)
    \/ \E v \in Sources, pred \in {None} \cup {Some(p) : p \in ProbSet} :
          SetPrediction(v, pred)
    \/ \E found \in FoundSets, q \in QuoteSet : ContractInit(found, q)
    \/ \E found \in FoundSets, q \in QuoteSet : ContractPoll(found, q)
    \/ PriceRead
    \/ \E q \in QuoteSet : PriceWrite(q)
    \/ StrategyRead
    \/ StrategySnapshot
    \/ StrategyManage
    \/ StrategyEntry
    \/ \E found \in FoundSets, q \in QuoteSet : AuditInit(found, q)
    \/ AuditBegin
    \/ AuditStep
    \/ AuditEnd
    \/ StrategyFail
    \/ StrategyResume
    \/ PriceFail
    \/ PriceResume
    \/ ContractFail
    \/ ContractResume
    \/ AuditFail
    \/ AuditResume

SpecLoops == TradeInit /\ [][LoopsNext]_vars

(***************************************************************************)
(* TradeTracker called directly (src/src/tracker.py): log_trade,           *)
(* update_result and close_trade with arbitrary arguments on a ledger.     *)
(***************************************************************************)
\* The ids callers pass; MaxId is not the id of any row.
MaxId == 2
LedgerIds == 0..MaxId

\* The rows log_trade is called with.
LedgerRows == {NewRow(i, i, 1, "UP", 720, Some(600), Some(660)) : i \in 0..(MaxId - 1)}

\* A new TradeTracker on an existing trades.db.
LedgerInit ==
    /\ trades \in SUBSET LedgerRows
    /\ log_call = <<>>
    /\ active_contract = None
    /\ latest_predictions = [v \in Sources |-> None]
    /\ ENABLE_SIM_TRADING = TRUE
    /\ win = 0
    /\ market_res = [e \in Epochs |-> "open"]
    /\ s_pc = "idle" /\ s_avg = 0 /\ s_up = 0 /\ s_down = 0
    /\ s_open = {} /\ s_todo = {}
    /\ a_pc = "idle" /\ a_now = 0 /\ a_todo = {}
    /\ p_pc = "idle" /\ p_market = None
    /\ c_pc = "poll"
    /\ b_pc = "binance"
    /\ n_in = 0
    /\ now = 0
    /\ buffer = [v \in Sources |-> [tf \in Targets |-> None]]
    /\ store = [v \in Sources |-> [i \in Intervals |-> {}]]
    /\ last_ts = None
    /\ ingestion_running = FALSE
    /\ dataset = None
    /\ flushed = <<>>
    /\ run = [v \in Sources |-> <<>>]
    /\ nev = 0

\* Everything but the ledger and the record of the last call.
othersOfLedger == <<sharedVars, envVars, n_in, stratVars, auditVars,
                    priceVars, c_pc, b_pc, barVars>>

\* tracker.log_trade(...) is called.
CallLogTrade(row) ==
    /\ trades' = log_trade(trades, row)
    /\ log_call' = <<"log_trade", row.id>>
    /\ UNCHANGED othersOfLedger

\* tracker.update_result(market_id, result_side, pnl) is called.
CallUpdateResult(market_id, result_side, pnl) ==
    /\ trades' = update_result(trades, market_id, result_side, pnl)
    /\ log_call' = <<"update_result", market_id>>
    /\ UNCHANGED othersOfLedger

\* tracker.close_trade(market_id, pnl, reason) is called.
CallCloseTrade(market_id, pnl, reason) ==
    /\ trades' = close_trade(trades, market_id, pnl, reason)
    /\ log_call' = <<"close_trade", market_id>>
    /\ UNCHANGED othersOfLedger

LedgerNext ==
    \/ \E row \in LedgerRows : CallLogTrade(row)
    \/ \E i \in LedgerIds, res \in ResolutionLabels, pnl \in {-600, 400} :
          CallUpdateResult(i, res, pnl)
    \/ \E i \in LedgerIds, pnl \in {-100, 100},
          reason \in {"SL_ODDS_DROP", "TP_HIT"} : CallCloseTrade(i, pnl, reason)

SpecLedger == LedgerInit /\ [][LedgerNext]_vars

(***************************************************************************)
(* Claims about the trade ledger                                           *)
(***************************************************************************)
\* The fields of a row that log_trade writes.
EntryFields(r) ==
    <<r.id, r.market_slug, r.end_date, r.prediction_side, r.prediction_prob,
      r.entry_price, r.profit_target>>

\* What a close writes.
CloseFields(r) == <<r.status, r.result_side, r.pnl>>

\* C1 (as claimed): of a stop-loss / take-profit close and an expiry close of
\* the same trade only the first takes effect: once a trade is CLOSED, the
\* pnl and the result/reason stored for it are never written again.
C1_FirstCloseWins ==
    [][\A r \in trades : r.status = "CLOSED" =>
          \E r2 \in trades' : /\ r2.id = r.id
                              /\ r2.pnl = r.pnl
                              /\ r2.result_side = r.result_side]_vars

\* C2 (as claimed): a step of the strategy loop (close_trade) or of the
\* auditor (update_result) leaves every row that is already CLOSED as it is.
C2_ClosedIsNoOp ==
    [][(StrategyManage \/ AuditStep) =>
          \A r \in trades : r.status = "CLOSED" =>
             \E r2 \in trades' : r2.id = r.id
                                 /\ CloseFields(r2) = CloseFields(r)]_vars

\* C3: a trade's status only moves from OPEN to CLOSED: no step (log_trade,
\* close_trade, update_result inside a strategy evaluation or an audit tick)
\* leaves a trade that was CLOSED with another status or removes it.
C3_StatusMonotone ==
    [][\A r \in trades : r.status = "CLOSED" =>
          /\ \E r2 \in trades' : r2.id = r.id
          /\ \A r2 \in trades' : r2.id = r.id => r2.status = "CLOSED"]_vars

\* C3 witness: log_trade was called with the id of a CLOSED trade and the
\* trade is still CLOSED.
C3_Witness ==
    /\ log_call # <<>>
    /\ \E r \in trades : r.id = log_call[1].id /\ r.status = "CLOSED"

\* C4: log_trade is idempotent per id: there is one row per id, a call with
\* an id that is already stored returns None and changes nothing, and the
\* entry fields of a stored row stay those of the first call.
C4_LogTradeIdempotent ==
    /\ [](\A r1, r2 \in trades : r1.id = r2.id => r1 = r2)
    /\ [][/\ \A r \in trades :
                \E r2 \in trades' : EntryFields(r2) = EntryFields(r)
          /\ (log_call' # log_call /\ log_call' # <<>>) =>
                IF HasId(trades, log_call'[1].id)
                THEN log_call'[2] = "None" /\ trades' = trades
                ELSE log_call'[2] = "market_id"
                     /\ trades' = trades \cup {log_call'[1]}]_vars

\* C4 witness: a second log_trade call with the id of a stored row and with
\* other fields returned None; the stored row holds the first call's fields.
C4_Witness ==
    /\ log_call # <<>>
    /\ log_call[2] = "None"
    /\ \E r \in trades : /\ r.id = log_call[1].id
                         /\ EntryFields(r) # EntryFields(log_call[1])

\* C5: the ledger holds at most one trade per contract identifier, and once
\* the trade of a contract is CLOSED no step stores an OPEN trade for that
\* contract.
C5_OnePositionPerContract ==
    /\ [](\A r1, r2 \in trades : r1.market_slug = r2.market_slug => r1 = r2)
    /\ [][\A r \in trades : r.status = "CLOSED" =>
             ~\E r2 \in trades' : /\ r2.market_slug = r.market_slug
                                  /\ r2.status = "OPEN"]_vars

\* C5 witness: the entry condition held again for a contract whose trade is
\* CLOSED (log_trade was called for it), and no second trade was stored.
C5_Witness ==
    /\ log_call # <<>>
    /\ \E r \in trades : /\ r.market_slug = log_call[1].market_slug
                         /\ r.status = "CLOSED"
    /\ Cardinality({r \in trades : r.market_slug = log_call[1].market_slug}) = 1

\* C26: close_trade or update_result with an id that is not in the ledger
\* creates no row and leaves every existing trade unchanged.
C26_UnknownIdIsNoOp ==
    [][\A i \in LedgerIds :
          (/\ ~HasId(trades, i)
           /\ \/ \E res \in ResolutionLabels, pnl \in {-600, 400} :
                    CallUpdateResult(i, res, pnl)
              \/ \E pnl \in {-100, 100}, reason \in {"SL_ODDS_DROP", "TP_HIT"} :
                    CallCloseTrade(i, pnl, reason))
          => trades' = trades]_vars

\* A close was called with an id that is not in a ledger holding trades.
C26_Witness ==
    /\ log_call # <<>>
    /\ log_call[1] \in {"update_result", "close_trade"}
    /\ ~HasId(trades, log_call[2])
    /\ trades # {}

(***************************************************************************)
(* Claims about the strategy loop                                          *)
(***************************************************************************)
\* A step made a log_trade call.
Logged == log_call' # <<>> /\ log_call' # log_call

\* The entry conditions of an evaluation whose averaged probability and
\* quotes are s_avg, s_up, s_down.
UpSignal == s_avg > ENTRY_UP /\ s_avg - s_up > MIN_EDGE
DownSignal == s_avg < ENTRY_DOWN /\ (ONE - s_avg) - s_down > MIN_EDGE

\* C14: the strategy logs a trade only in an evaluation where the driving
\* probability is beyond the entry threshold on the trade's side and the edge
\* of that side exceeds the minimum edge; when either fails the evaluation
\* logs no trade and adds no row.
C14_EntryOnlyOnSignal ==
    [][/\ Logged =>
             \/ log_call'[1].prediction_side = "UP" /\ UpSignal
             \/ log_call'[1].prediction_side = "DOWN" /\ DownSignal
       /\ (\E r \in trades' : ~HasId(trades, r.id)) => Logged
       /\ (StrategyEntry /\ ~UpSignal /\ ~DownSignal) =>
             trades' = trades /\ log_call' = log_call]_vars

\* A trade was logged UP on a probability above the threshold with an edge
\* above the minimum.
C14_Witness ==
    /\ log_call # <<>>
    /\ log_call[2] = "market_id"
    /\ log_call[1].prediction_side = "UP"
    /\ log_call[1].prediction_prob > ENTRY_UP
    /\ log_call[1].prediction_prob - log_call[1].entry_price[1] > MIN_EDGE
    /\ log_call[1] \in trades

ManagedBy(trade) ==
    /\ StrategyManage
    /\ active_contract # None
    /\ trade \in s_todo
    /\ trade \notin s_todo'
    /\ trade.market_slug = active_contract[1].slug

\* The quote of the side a trade holds, as read by the evaluation.
HeldQuote(trade) == IF trade.prediction_side = "UP" THEN s_up ELSE s_down

\* The ledger row with the given id.
RowOf(T, id) == CHOOSE r \in T : r.id = id

\* The exit conditions of a snapshot row in the running evaluation.
SLHolds(trade) == sl_triggered(trade.prediction_side, s_avg)
TPHolds(trade) == tp_triggered(trade.profit_target, HeldQuote(trade))

\* C16: in one strategy evaluation at most one exit fires for a trade and
\* stop-loss is checked before take-profit: when both conditions hold the
\* trade is closed by stop-loss and no take-profit close is applied to it.
C16_StopLossFirst ==
    [][/\ \A trade \in s_todo :
             (ManagedBy(trade) /\ SLHolds(trade) /\ TPHolds(trade)) =>
                 /\ RowOf(trades', trade.id).status = "CLOSED"
                 /\ RowOf(trades', trade.id).result_side = "SL_ODDS_DROP"
       /\ StrategyManage =>
             /\ Cardinality(trades' \ trades) <= 1
             /\ \A r \in trades' \ trades :
                    \E trade \in s_todo \ s_todo' : trade.id = r.id
       /\ (s_pc = "manage" /\ s_pc' = "manage") => s_todo' \subseteq s_todo]_vars

\* A trade was closed by stop-loss at a quote at or above its profit target.
C16_Witness ==
    \E r \in trades :
        /\ r.status = "CLOSED"
        /\ r.result_side = "SL_ODDS_DROP"
        /\ r.profit_target # None
        /\ r.pnl[1] + r.entry_price[1] >= r.profit_target[1]

\* C17 as stated: a take-profit exit books profit_target - entry_price, also
\* when the live quote is above the target.
C17_TakeProfitAtTarget ==
    [][\A trade \in s_todo :
          (ManagedBy(trade) /\ ~SLHolds(trade) /\ TPHolds(trade)) =>
              /\ RowOf(trades', trade.id).result_side = "TP_HIT"
              /\ RowOf(trades', trade.id).pnl =
                     Some(trade.profit_target[1] - trade.entry_price[1])]_vars

\* C17 amended: when the quote of the held side reaches or exceeds the profit
\* target and the stop-loss condition does not hold, the trade is closed with
\* reason TP_HIT and the booked pnl is that quote minus the entry price.
C17_TakeProfitAtQuote ==
    [][\A trade \in s_todo :
          (ManagedBy(trade) /\ ~SLHolds(trade) /\ TPHolds(trade)) =>
              /\ RowOf(trades', trade.id).status = "CLOSED"
              /\ RowOf(trades', trade.id).result_side = "TP_HIT"
              /\ RowOf(trades', trade.id).pnl =
                     Some(HeldQuote(trade) - trade.entry_price[1])]_vars

\* A take-profit close booked more than profit_target - entry_price.
C17_Witness ==
    \E r \in trades :
        /\ r.status = "CLOSED"
        /\ r.result_side = "TP_HIT"
        /\ r.pnl[1] > r.profit_target[1] - r.entry_price[1]

\* C18: when the driving probability of an OPEN trade on the active contract
\* is back across the unwind threshold, the trade is closed with the
\* stop-loss reason and pnl equal to the current quote of the held side minus
\* the entry price.
C18_StopLossAtQuote ==
    [][\A trade \in s_todo :
          (ManagedBy(trade) /\ SLHolds(trade)) =>
              /\ RowOf(trades', trade.id).status = "CLOSED"
              /\ RowOf(trades', trade.id).result_side = "SL_ODDS_DROP"
              /\ RowOf(trades', trade.id).pnl =
                     Some(HeldQuote(trade) - trade.entry_price[1])]_vars

\* A DOWN trade was closed by stop-loss at the down quote, which differs
\* from the up quote.
C18_Witness ==
    \E r \in trades :
        /\ r.status = "CLOSED"
        /\ r.result_side = "SL_ODDS_DROP"
        /\ r.prediction_side = "DOWN"
        /\ r.pnl[1] + r.entry_price[1] \in {q[2] : q \in QuoteSet}

(***************************************************************************)
(* Claims about the auditor                                                *)
(***************************************************************************)
\* The auditor closes the row trade in this step with a resolution.
AuditedBy(trade) ==
    /\ AuditStep
    /\ trade \in a_todo
    /\ trade \notin a_todo'
    /\ RowOf(trades, trade.id).status = "OPEN"
    /\ RowOf(trades', trade.id).status = "CLOSED"

\* The resolved outcome is the side of the trade.
SideWon(resolution, side) ==
    \/ side = "UP" /\ resolution \in UpOutcomes
    \/ side = "DOWN" /\ resolution \in DownOutcomes

\* The probability-implied cost of a trade.
ImpliedCost(trade) ==
    IF trade.prediction_side = "UP" THEN trade.prediction_prob
    ELSE ONE - trade.prediction_prob

\* C19: the auditor closes an expired OPEN trade whose market has resolved
\* with reason equal to the resolution outcome and pnl = payout - cost, where
\* payout is 1 exactly when the resolved outcome is the trade's side, for
\* every outcome label the resolution source can return.
C19_PayoutBySide ==
    [][\A trade \in a_todo :
          AuditedBy(trade) =>
              LET resolution == market_res[trade.id]
                  payout == IF SideWon(resolution, trade.prediction_side)
                            THEN ONE ELSE 0
              IN /\ RowOf(trades', trade.id).result_side = resolution
                 /\ RowOf(trades', trade.id).pnl =
                        Some(payout - cost_basis(trade))]_vars

\* C20 as stated: the cost is the recorded entry price whenever one was
\* recorded, the probability-implied cost only when none was.
C20_CostIsEntryPrice ==
    [][\A trade \in a_todo :
          AuditedBy(trade) =>
              LET cost == IF trade.entry_price # None
                          THEN trade.entry_price[1] ELSE ImpliedCost(trade)
              IN RowOf(trades', trade.id).pnl[1] + cost \in {0, ONE}]_vars

\* C20 amended: the cost is the recorded entry price whenever a positive
\* entry price was recorded; the probability-implied cost is used when no
\* entry price or an entry price of 0 was recorded.
C20_CostIsPositiveEntryPrice ==
    [][\A trade \in a_todo :
          AuditedBy(trade) =>
              LET cost == IF trade.entry_price # None
                             /\ trade.entry_price[1] > 0
                          THEN trade.entry_price[1] ELSE ImpliedCost(trade)
              IN RowOf(trades', trade.id).pnl[1] + cost \in {0, ONE}]_vars

\* The auditor closed a trade whose recorded positive entry price differs
\* from its probability-implied cost, at the entry price.
C20_Witness ==
    \E r \in trades :
        /\ r.status = "CLOSED"
        /\ r.entry_price # None
        /\ r.entry_price[1] > 0
        /\ r.entry_price[1] # ImpliedCost(r)
        /\ r.pnl[1] + r.entry_price[1] \in {0, ONE}

\* The rows an audit step changes.
AuditChanged == {r \in trades : AuditStep /\ r \notin trades'}

\* C21: the auditor closes a trade only if the trade is OPEN, its contract
\* end time has passed and the resolution source returned an outcome for it;
\* a trade that is not expired, or whose resolution is not yet available, is
\* left unchanged by an audit tick.
C21_NeverForcesResult ==
    [][/\ \A r \in AuditChanged :
             /\ r.status = "OPEN"
             /\ a_now >= r.end_date
             /\ market_res[r.id] # "open"
       /\ \A trade \in a_todo :
             (/\ AuditStep
              /\ trade \notin a_todo'
              /\ \/ ~(a_now >= trade.end_date)
                 \/ market_res[trade.id] = "open") => trades' = trades]_vars

\* An expired trade whose market has resolved / has not resolved.
Resolvable(r) == win >= r.end_date /\ market_res[r.id] # "open"
Unresolved(r) == market_res[r.id] = "open"

\* C22: an unresolved expired trade is retried on every audit tick: while
\* the resolution source reports not-yet-resolved the trade stays OPEN, and
\* once the source returns an outcome the trade is, under fair scheduling of
\* the audit loop, eventually CLOSED.
C22_RetriedUntilResolved ==
    /\ [](\A r \in trades : Unresolved(r) => r.status = "OPEN")
    /\ ((\A r \in trades : Resolvable(r))
            ~> (\A r \in trades : r.status = "CLOSED"))

\* An audit tick has gone over an expired trade whose market is unresolved
\* and left it OPEN.
C22_Witness ==
    /\ a_pc = "audit"
    /\ a_todo = {}
    /\ \E r \in trades :
          /\ r.status = "OPEN"
          /\ a_now >= r.end_date
          /\ Unresolved(r)

(***************************************************************************)
(* Claims about the shared state of the workers                            *)
(***************************************************************************)
\* A discovery step of a loop: the contract worker's initial fetch or poll,
\* or the audit worker's initial fetch.
DiscoveryStep ==
    \E found \in FoundSets, q \in QuoteSet :
        \/ ContractInit(found, q)
        \/ ContractPoll(found, q)
        \/ AuditInit(found, q)

\* C23: the shared active-contract reference is replaced only when the
\* discovered contract's identifier differs from the one held: no discovery
\* step replaces or clears a held contract with the same identifier.
C23_ReplacedOnlyOnNewId ==
    [][(DiscoveryStep /\ active_contract # None
                      /\ active_contract' # active_contract) =>
          /\ active_contract' # None
          /\ active_contract'[1].slug # active_contract[1].slug]_vars

\* C24: writers of shared state replace the whole value and never mutate
\* fields of the already published object in place: while the same object
\* stays published its fields do not change, and a prediction is replaced
\* as a whole.
C24_NoInPlaceMutation ==
    [][/\ (/\ active_contract # None
           /\ active_contract' # None
           /\ active_contract'[1].obj = active_contract[1].obj)
              => active_contract' = active_contract
       /\ \A v \in Sources :
             latest_predictions'[v] # latest_predictions[v] =>
                 latest_predictions'[v] \in {Some(p) : p \in ProbSet}]_vars

\* The locations of the five workers.
LoopPcs == <<s_pc, p_pc, c_pc, a_pc, b_pc>>

\* C25: a failure raised inside one iteration of a polling loop is caught
\* within that iteration and the loop runs its next tick; no failure ends
\* that loop or any other loop.
C25_LoopsSurviveFailures ==
    /\ [](/\ \A i \in 1..5 : LoopPcs[i] # "dead"
          /\ s_pc = "except" => ENABLED StrategyResume
          /\ p_pc = "except" => ENABLED PriceResume
          /\ c_pc = "except" => ENABLED ContractResume
          /\ a_pc = "except" => ENABLED AuditResume
          /\ b_pc \in Sources)
    /\ [][/\ StrategyFail => <<p_pc, c_pc, a_pc, b_pc>>' = <<p_pc, c_pc, a_pc, b_pc>>
          /\ PriceFail => <<s_pc, c_pc, a_pc, b_pc>>' = <<s_pc, c_pc, a_pc, b_pc>>
          /\ ContractFail => <<s_pc, p_pc, a_pc, b_pc>>' = <<s_pc, p_pc, a_pc, b_pc>>
          /\ AuditFail => <<s_pc, p_pc, c_pc, b_pc>>' = <<s_pc, p_pc, c_pc, b_pc>>]_vars

\* The strategy loop is in its except clause after it has entered a trade,
\* while the auditor is inside a tick.
C25_Witness ==
    /\ s_pc = "except"
    /\ trades # {}
    /\ a_pc = "audit"

(***************************************************************************)
(* Claims about the aggregator                                             *)
(***************************************************************************)
\* The write an insert_candle call of the aggregator makes, as its key.
FlushKeys == {flushed[i] : i \in DOMAIN flushed}

\* C6: for each derived cadence and any sequence of base bars given to
\* process_1m_candle, each bucket is written to the bar store exactly once
\* (no bucket key occurs twice among the aggregator's writes), and no write
\* has been made for the bucket that is still the current in-memory bucket.
C6_OneWritePerBucket ==
    /\ \A i, j \in DOMAIN flushed : i # j => flushed[i] # flushed[j]
    /\ \A v \in Sources, tf \in Targets :
          buffer[v][tf] # None =>
              [source |-> v, interval |-> tf,
               timestamp |-> buffer[v][tf][1].start] \notin FlushKeys

\* The bars at the end of a sequence that floor to the bucket start of its
\* last bar: the bars contributing to the in-memory bucket.
RECURSIVE Contributing(_, _)
Contributing(tf, bars) ==
    IF Len(bars) <= 1 THEN bars
    ELSE LET front == SubSeq(bars, 1, Len(bars) - 1)
             last  == bars[Len(bars)]
         IN IF bucket_start(tf, front[Len(front)].timestamp)
                 = bucket_start(tf, last.timestamp)
            THEN Append(Contributing(tf, front), last)
            ELSE <<last>>

RECURSIVE MaxHigh(_)
MaxHigh(bars) ==
    IF Len(bars) = 1 THEN bars[1].high
    ELSE Max2(bars[1].high, MaxHigh(Tail(bars)))

RECURSIVE MinLow(_)
MinLow(bars) ==
    IF Len(bars) = 1 THEN bars[1].low
    ELSE Min2(bars[1].low, MinLow(Tail(bars)))

RECURSIVE SumVolume(_)
SumVolume(bars) ==
    IF bars = <<>> THEN 0 ELSE bars[1].volume + SumVolume(Tail(bars))

\* C7: while consecutive base bars floor to the same bucket start, the
\* in-memory bucket of a cadence has the open of the first contributing bar,
\* the maximum of the contributing highs, the minimum of the contributing
\* lows, the close of the most recent contributing bar and the sum of the
\* contributing volumes.
C7_BucketIsAggregate ==
    \A v \in Sources, tf \in Targets :
        run[v] # <<>> =>
            LET bars == Contributing(tf, run[v])
            IN /\ buffer[v][tf] # None
               /\ buffer[v][tf][1].start
                      = bucket_start(tf, bars[1].timestamp)
               /\ buffer[v][tf][1].candle
                      = Candle(bucket_start(tf, bars[1].timestamp),
                               bars[1].open, MaxHigh(bars), MinLow(bars),
                               bars[Len(bars)].close, SumVolume(bars))

\* One-minute bars at 12:00, 12:01, 12:02 with closes 100, 101, 99 have given
\* a 3-minute bucket with open 100, high 101, low 99, close 99.
C7_Witness ==
    /\ Len(run["binance"]) = 3
    /\ \A i \in 1..3 : run["binance"][i].timestamp = (14 + i) * 60 * 1000
    /\ <<run["binance"][1].close, run["binance"][2].close,
         run["binance"][3].close>> = <<100, 101, 99>>
    /\ buffer["binance"][3] # None
    /\ buffer["binance"][3][1].candle
           = Candle(15 * 60 * 1000, 100, 101, 99, 99, 16)

\* C8: for all sequences of base bars, every bucket the aggregator has
\* persisted to the bar store has high >= max(open, close) and
\* low <= min(open, close).
C8_PersistedBucketsWellFormed ==
    \A v \in Sources, tf \in Targets : \A r \in store[v][tf] :
        /\ r.high >= Max2(r.open, r.close)
        /\ r.low <= Min2(r.open, r.close)

\* A 3-minute bucket made of three base bars has been persisted.
C8_Witness ==
    /\ Len(run["binance"]) = 4
    /\ \E r \in store["binance"][3] :
          /\ r.volume = 16
          /\ r.high > r.open
          /\ r.low < r.open

(***************************************************************************)
(* Claims about the bar store                                              *)
(***************************************************************************)
\* C9: after any sequence of insert_candle calls (history fetch, streamed
\* one-minute bars, aggregator flushes, repeated writes of the same bucket)
\* the bar store holds at most one bar per (venue, cadence, bucket start).
C9_OneBarPerKey ==
    \A v \in Sources, i \in Intervals : \A r1, r2 \in store[v][i] :
        r1.timestamp = r2.timestamp => r1 = r2

\* The one-minute bar of one minute was written twice with different
\* contents, and a derived bucket was written by the history fetch and then
\* by the aggregator.
C9_Witness ==
    /\ \E j, k \in DOMAIN run["hyperliquid"] :
          /\ j < k
          /\ run["hyperliquid"][j].timestamp = run["hyperliquid"][k].timestamp
          /\ run["hyperliquid"][j] # run["hyperliquid"][k]
          /\ run["hyperliquid"][k] \in store["hyperliquid"][1]
    /\ \E f \in FlushKeys :
          /\ f.source = "hyperliquid"
          /\ f.timestamp >= bucket_start(f.interval, Ms(StartMinute))

\* C10: the durable bar store holds only closed bars: for every venue and
\* cadence, the interval of every stored bar has ended.
C10_OnlyClosedBars ==
    \A v \in Sources, i \in Intervals : \A r \in store[v][i] :
        r.timestamp + interval_ms(i) <= Ms(now)

\* C11: a stored bar is immutable once closed: the open, high, low, close
\* and volume stored under a derived-cadence key whose interval has ended are
\* changed by no later event.
C11_StoredBarImmutable ==
    [][\A v \in Sources, tf \in Targets : \A r \in store[v][tf] :
          r.timestamp + interval_ms(tf) <= Ms(now) => r \in store'[v][tf]]_vars

\* C28: every call the venue ingestors make to process_1m_candle passes a
\* closed one-minute bar: the minute of the bar given to the aggregator has
\* ended.
C28_AggregatorFedClosedBars ==
    [][\A v \in Sources :
          Len(run'[v]) > Len(run[v]) =>
              run'[v][Len(run'[v])].timestamp + interval_ms(1) <= Ms(now)]_vars

\* The bars the aggregator persists in a step, as keys.
NewFlushes == {flushed'[i] : i \in (Len(flushed) + 1)..Len(flushed')}

\* The row stored under a key after the step.
StoredAfter(k) ==
    CHOOSE r \in store'[k.source][k.interval] : r.timestamp = k.timestamp

\* C27: a restart that loses the in-memory buckets is self-correcting: when
\* the bucket that was open at the restart rolls over, the bar written for
\* it is the aggregate of all its base bars (here: in open, high, low and
\* close), so that after the rollover the store holds no inaccurate bar for
\* that bucket.
C27_RestartSelfCorrects ==
    [][\A k \in NewFlushes :
          LET r == StoredAfter(k)
              ref == Reference(k.interval, k.timestamp)
          IN <<r.open, r.high, r.low, r.close>>
                 = <<ref.open, ref.high, ref.low, ref.close>>]_vars

\* C29: under the event stream the ingestor delivers, every derived-cadence
\* bar the aggregator persists equals the reference aggregation of the
\* venue's closed one-minute bars of the bucket, each bar counted once.
C29_PersistedEqualsReference ==
    [][\A k \in NewFlushes :
          StoredAfter(k) = Reference(k.interval, k.timestamp)]_vars

(***************************************************************************)
(* Claims about the dataset builder                                        *)
(***************************************************************************)
\* The rows of the dataset that was built, and the source it was built for.
DatasetRows == IF dataset = None THEN {} ELSE dataset[1].result.rows
DatasetSource == dataset[1].source

\* C12: leakage property: for every row build_mtf_dataset outputs, with base
\* timestamp t', and every higher cadence c, the cadence-c columns of the row
\* come from a bar whose interval ended at or before t'
\* (bucket_start + c <= t'), a stored bar whenever the table of c has rows.
C12_NoLeakage ==
    \A row \in DatasetRows : \A tf \in DOMAIN row.tfs :
        row.tfs[tf] # None =>
            /\ row.tfs[tf][1].timestamp + interval_ms(tf) <= row.timestamp
            /\ store[DatasetSource][tf] # {} =>
                  row.tfs[tf][1].bar \in store[DatasetSource][tf]

\* A row was output for a base timestamp at which a stored 3m bucket is
\* still open, and its 3m columns come from the bucket closed before.
C12_Witness ==
    \E row \in DatasetRows :
        /\ \E b \in store[DatasetSource][3] :
              /\ b.timestamp <= row.timestamp
              /\ row.timestamp < b.timestamp + interval_ms(3)
        /\ row.tfs[3] # None
        /\ row.tfs[3][1].timestamp + interval_ms(3) <= row.timestamp

\* C13: warm-up rows are dropped, not null-filled: every row
\* build_mtf_dataset outputs has a matched, non-null value for every higher
\* cadence, and no output row is earlier than the close of the first bucket
\* of a higher cadence.
C13_WarmupDropped ==
    \A row \in DatasetRows :
        /\ DOMAIN row.tfs = Targets
        /\ \A tf \in Targets :
              /\ row.tfs[tf] # None
              /\ ~row.tfs[tf][1].nan
              /\ \A b \in store[DatasetSource][tf] :
                    (\A q \in store[DatasetSource][tf] :
                        b.timestamp <= q.timestamp)
                    => b.timestamp + interval_ms(tf) <= row.timestamp

\* Rows were output, and a base row with defined features that is earlier
\* than the close of the first 3m bucket is not among them.
C13_Witness ==
    /\ DatasetRows # {}
    /\ \E r \in store[DatasetSource][1] :
          /\ Cardinality({q \in store[DatasetSource][1] :
                             q.timestamp < r.timestamp}) >= period
          /\ \A b \in store[DatasetSource][3] :
                r.timestamp < b.timestamp + interval_ms(3)
          /\ \A row \in DatasetRows : row.timestamp # r.timestamp

\* The stored bars of cadence tf that had closed by the base timestamp t.
ClosedBy(tf, t) ==
    {b \in store[DatasetSource][tf] : b.timestamp + interval_ms(tf) <= t}

\* C30: the cadence-c values attached to a base row at t' come from the most
\* recently closed cadence-c bar: whenever the table of c has rows, the bar
\* attached to an output row is a stored bar closed by t', and no stored bar
\* closed by t' has a greater bucket_start.
C30_MostRecentClosedBar ==
    \A row \in DatasetRows : \A tf \in DOMAIN row.tfs :
        (row.tfs[tf] # None /\ store[DatasetSource][tf] # {}) =>
            /\ row.tfs[tf][1].bar \in ClosedBy(tf, row.timestamp)
            /\ \A b \in ClosedBy(tf, row.timestamp) :
                  b.timestamp <= row.tfs[tf][1].timestamp

\* A row was output at a base timestamp by which two stored 3m bars with
\* defined features had closed (period + 2 closed bars), and its 3m columns
\* come from the newer of them.
C30_Witness ==
    \E row \in DatasetRows :
        /\ row.tfs[3] # None
        /\ Cardinality(ClosedBy(3, row.timestamp)) >= period + 2
        /\ row.tfs[3][1].bar \in ClosedBy(3, row.timestamp)
        /\ \E b \in ClosedBy(3, row.timestamp) :
              b.timestamp < row.tfs[3][1].timestamp

\* The aggregator of venue v is given a base bar in this step.
Processes(v) == Len(run'[v]) = Len(run[v]) + 1

\* C37: venues are independent: processing a base bar of one venue changes
\* only that venue's in-memory buckets and, on a rollover, that venue's
\* stored bars; the in-memory buckets and the stored bars of the other venue
\* are unchanged.
C37_VenuesIndependent ==
    [][\A v \in Sources : Processes(v) =>
          /\ \A w \in Sources \ {v} :
                buffer'[w] = buffer[w] /\ store'[w] = store[w]
          /\ \A k \in NewFlushes : k.source = v]_vars

\* The aggregator of hyperliquid has flushed a bucket while the aggregator
\* of binance holds buckets of its own and binance has stored bars.
C37_Witness ==
    /\ \E i \in DOMAIN flushed : flushed[i].source = "hyperliquid"
    /\ \E tf \in Targets : buffer["binance"][tf] # None
    /\ \E tf \in Targets : store["binance"][tf] # {}

(***************************************************************************)
(* Claims about the strategy loop and the shared active contract           *)
(***************************************************************************)
\* A step of strategy_worker.
StrategyStep ==
    StrategyRead \/ StrategySnapshot \/ StrategyManage \/ StrategyEntry

\* The ledger row r is not a trade of the current active contract.
NotOfActive(r) ==
    active_contract = None \/ r.market_slug # active_contract[1].slug

\* C31: the strategy loop exits only trades of the active contract: a step
\* of a strategy evaluation leaves every OPEN trade whose contract
\* identifier differs from that of the current active contract in the
\* ledger as it is.
C31_OnlyActiveContractExits ==
    [][StrategyStep =>
          \A r \in trades :
              (r.status = "OPEN" /\ NotOfActive(r)) => r \in trades']_vars

\* The manage loop has passed over a snapshot trade of another contract
\* whose stop-loss condition holds, and the trade is still OPEN.
C31_Witness ==
    /\ s_pc = "manage"
    /\ active_contract # None
    /\ \E trade \in s_open \ s_todo :
          /\ trade \in trades
          /\ trade.status = "OPEN"
          /\ trade.market_slug # active_contract[1].slug
          /\ SLHolds(trade)

\* One of the conditions under which strategy_worker skips the evaluation.
EvaluationSkipped ==
    \/ ~ENABLE_SIM_TRADING
    \/ \E v \in Sources : latest_predictions[v] = None
    \/ active_contract = None
    \/ Len(active_contract[1].outcomePrices) < 2

\* C32: a strategy evaluation changes nothing in the trade ledger when
\* simulated trading is disabled, when the latest prediction of either venue
\* is missing, when there is no active contract, or when the active contract
\* has fewer than two quotes: the evaluation ends at its guards (the loop is
\* back at its start) with the ledger as it was.
C32_SkippedEvaluationIsNoOp ==
    [][(s_pc = "idle" /\ StrategyStep /\ EvaluationSkipped) =>
          (trades' = trades /\ s_pc' = "idle")]_vars

\* The loop is at the start of an evaluation, trading is enabled and both
\* predictions are there, the active contract carries fewer than two quotes
\* and the ledger holds an OPEN trade on it whose stop-loss condition holds.
C32_Witness ==
    /\ s_pc = "idle"
    /\ ENABLE_SIM_TRADING
    /\ \A v \in Sources : latest_predictions[v] # None
    /\ active_contract # None
    /\ Len(active_contract[1].outcomePrices) < 2
    /\ \E r \in trades :
          /\ r.status = "OPEN"
          /\ r.market_slug = active_contract[1].slug
          /\ sl_triggered(r.prediction_side,
                          (latest_predictions["binance"][1]
                           + latest_predictions["hyperliquid"][1]) \div 2)

\* price_worker assigns the enriched contract to the shared global.
WriteBack == p_pc = "fetch" /\ p_pc' = "idle"

\* C33: once the contract worker has switched the active contract to a new
\* identifier, the shared active contract never goes back to the previous
\* contract under any interleaving with the quote-refresh loop: the write of
\* the enriched contract leaves the identifier of the active contract as it
\* is.
C33_NoReturnToPreviousContract ==
    [][(WriteBack /\ active_contract # None) =>
          /\ active_contract' # None
          /\ active_contract'[1].slug = active_contract[1].slug]_vars

\* C34: within one strategy evaluation the quotes used for the entry and
\* exit decisions and the contract identifier compared with open trades and
\* recorded on a new trade belong to the same contract: a new trade is
\* recorded at the quote of the market it names, and an exit books the
\* quote of the market of the trade it closes.
C34_QuotesAndIdOfOneContract ==
    [][/\ (StrategyEntry /\ log_call' # <<>>) =>
             log_call'[1].entry_price =
                 Some(SideQuoteOf(log_call'[1].id,
                                  log_call'[1].prediction_side))
       /\ \A trade \in s_todo :
             (ManagedBy(trade) /\ RowOf(trades, trade.id).status = "OPEN"
                               /\ RowOf(trades', trade.id).status = "CLOSED") =>
                 RowOf(trades', trade.id).pnl[1] + trade.entry_price[1] =
                     SideQuoteOf(trade.id, trade.prediction_side)]_vars

\* The end of the market of window e: the window's end, after which the
\* market resolves.
ContractEnd(e) == e + 1

\* C35: the contract end time recorded on a trade at entry is the end time
\* of the contract the trade was entered on, also when the active contract
\* is the market of the next or next-but-one five-minute window.
C35_EndTimeOfEnteredContract ==
    \A r \in trades : r.end_date = ContractEnd(r.market_slug)

(***************************************************************************)
(* Claims about the states of the trade ledger                             *)
(***************************************************************************)
\* C36: in every reachable state of the trade ledger each trade has status
\* OPEN or CLOSED, an OPEN trade has no pnl and no result recorded, and a
\* CLOSED trade has both a pnl and a result/reason recorded.
C36_LedgerRowsWellFormed ==
    \A r \in trades :
        /\ r.status \in {"OPEN", "CLOSED"}
        /\ r.status = "OPEN" => (r.pnl = None /\ r.result_side = "NULL")
        /\ r.status = "CLOSED" => (r.pnl # None /\ r.result_side # "NULL")

\* The ledger holds a trade the strategy loop closed with an exit reason
\* and a pnl.
C36_Witness ==
    \E r \in trades :
        /\ r.status = "CLOSED"
        /\ r.result_side \in {"SL_ODDS_DROP", "TP_HIT"}
        /\ r.pnl # None

(***************************************************************************)
(* Claims about contract discovery                                         *)
(***************************************************************************)
\* The windows among the current, next and next-but-one whose market
\* exists (is in the logged set) and is not closed.
Eligible ==
    {e \in {win, win + 1, win + 2} :
        e \in log_call[1] /\ market_res[e] = "open"}

\* C38: contract discovery returns the market of the earliest of the
\* current, next and next-but-one five-minute windows whose market exists
\* and is not closed, returns none when there is no such market, and never
\* returns a closed market.
C38_EarliestOpenMarket ==
    log_call # <<>> =>
        /\ Eligible = {} => log_call[2] = None
        /\ Eligible # {} =>
              /\ log_call[2] # None
              /\ log_call[2][1].slug \in Eligible
              /\ \A e \in Eligible : log_call[2][1].slug <= e
        /\ log_call[2] # None => market_res[log_call[2][1].slug] = "open"

\* Discovery returned the market of the next-but-one window while the market
\* of the current window exists and is closed and the market of the next
\* window does not exist.
C38_Witness ==
    /\ log_call # <<>>
    /\ log_call[2] # None
    /\ log_call[2][1].slug = win + 2
    /\ win \in log_call[1]
    /\ market_res[win] # "open"
    /\ (win + 1) \notin log_call[1]

====
